---- MODULE Spec2Model ----
(***************************************************************************)
(* Model of the hackathon-signal backend: the relevance scorer             *)
(* (backend/scoring.py), the event enricher (backend/enrichment.py) and    *)
(* the alert router with its persisted digest queue (backend/alert.py,     *)
(* driven by backend/demo_run.py).                                         *)
(*                                                                         *)
(* Text is a sequence of one-character strings.  Amounts of money are     *)
(* exact rationals [n, d] in lowest terms (Python floats without their     *)
(* rounding); scores are integers in thousandths.                          *)
(***************************************************************************)
EXTENDS Integers, Sequences, FiniteSets, TLC

VARIABLES call, result, queueFile, delivered, last, history

vars == <<call, result, queueFile, delivered, last, history>>

(***************************************************************************)
(* Bounds                                                                  *)
(***************************************************************************)
\* longest enumerated text, in vocabulary words
MaxWords == 3

\* most posts in one batch
MaxBatch == 3

\* longest digest queue the router is driven to
MaxQueue == 2

(***************************************************************************)
(* Characters and strings                                                  *)
(***************************************************************************)
Digit == {"0", "1", "2", "3", "4", "5", "6", "7", "8", "9"}

DigitVal(c) ==
  CASE c = "0" -> 0 [] c = "1" -> 1 [] c = "2" -> 2 [] c = "3" -> 3
    [] c = "4" -> 4 [] c = "5" -> 5 [] c = "6" -> 6 [] c = "7" -> 7
    [] c = "8" -> 8 [] c = "9" -> 9

\* the characters Python's \s matches that the model's texts use
Whitespace == {" ", "\t", "\n"}

UpperCase == [A |-> "a", B |-> "b", C |-> "c", D |-> "d", E |-> "e", F |-> "f",
              G |-> "g", H |-> "h", I |-> "i", J |-> "j", K |-> "k", L |-> "l",
              M |-> "m", N |-> "n", O |-> "o", P |-> "p", Q |-> "q", R |-> "r",
              S |-> "s", T |-> "t", U |-> "u", V |-> "v", W |-> "w", X |-> "x",
              Y |-> "y", Z |-> "z"]

\* str.lower() on one character
LowerChar(c) == IF c \in DOMAIN UpperCase THEN UpperCase[c] ELSE c

\* str.lower()
Lower(t) == [i \in 1..Len(t) |-> LowerChar(t[i])]

Min(a, b) == IF a <= b THEN a ELSE b

Max(a, b) == IF a >= b THEN a ELSE b

\* the literal w occurs in t at position i
Lit(t, i, w) ==
  /\ i >= 1
  /\ i + Len(w) - 1 <= Len(t)
  /\ \A k \in 1..Len(w) : t[i + k - 1] = w[k]

\* `w in t` for Python strings
Contains(t, w) == \E i \in 1..(Len(t) - Len(w) + 1) : Lit(t, i, w)

\* index just after the longest run of characters of S that starts at i
RECURSIVE RunEnd(_, _, _)
RunEnd(t, i, S) ==
  IF i <= Len(t) /\ t[i] \in S THEN RunEnd(t, i + 1, S) ELSE i

\* t[i..j-1] are n digits
DigitsAt(t, i, n) ==
  /\ i + n - 1 <= Len(t)
  /\ \A k \in i..(i + n - 1) : t[k] \in Digit

\* index just after the longest run of  ,\d{3}  groups that starts at i
RECURSIVE CommaGroupsEnd(_, _)
CommaGroupsEnd(t, i) ==
  IF i <= Len(t) /\ t[i] = "," /\ DigitsAt(t, i + 1, 3)
    THEN CommaGroupsEnd(t, i + 4)
    ELSE i

\* str.replace(c, "")
RECURSIVE Remove(_, _)
Remove(t, c) ==
  IF t = <<>> THEN <<>>
  ELSE IF Head(t) = c THEN Remove(Tail(t), c)
  ELSE <<Head(t)>> \o Remove(Tail(t), c)

\* int() of a string of digits
RECURSIVE ParseInt(_)
ParseInt(s) ==
  IF s = <<>> THEN 0
  ELSE 10 * ParseInt(SubSeq(s, 1, Len(s) - 1)) + DigitVal(s[Len(s)])

RECURSIVE Pow10(_)
Pow10(k) == IF k = 0 THEN 1 ELSE 10 * Pow10(k - 1)

(***************************************************************************)
(* Exact rationals for Python floats                                       *)
(***************************************************************************)
RECURSIVE GCD(_, _)
GCD(a, b) == IF b = 0 THEN a ELSE GCD(b, a % b)

\* n/d in lowest terms, d > 0
Rat(n, d) == LET g == GCD(n, d) IN [n |-> n \div g, d |-> d \div g]

RatInt(k) == [n |-> k, d |-> 1]

\* r * (a/b), cancelling before multiplying
RatMul(r, a, b) ==
  LET g1 == GCD(r.n, b)
      g2 == GCD(a, r.d)
      h1 == IF g1 = 0 THEN 1 ELSE g1
      h2 == IF g2 = 0 THEN 1 ELSE g2
  IN  Rat((r.n \div h1) * (a \div h2), (r.d \div h2) * (b \div h1))

\* r / k for an integer k > 0
RatDivInt(r, k) == RatMul(r, 1, k)

\* r > k for an integer k
RatGreater(r, k) == r.n > k * r.d

\* float() of  digits  or  digits.digits
ParseFloat(s) ==
  LET dot == RunEnd(s, 1, Digit)
  IN  IF dot > Len(s)
        THEN RatInt(ParseInt(s))
        ELSE LET frac == SubSeq(s, dot + 1, Len(s))
             IN  Rat(ParseInt(SubSeq(s, 1, dot - 1)) * Pow10(Len(frac)) + ParseInt(frac),
                     Pow10(Len(frac)))

(***************************************************************************)
(* Regular expressions of enrichment.py                                    *)
(*                                                                         *)
(* Every pattern is searched with re.IGNORECASE; the model searches the    *)
(* lower-cased text for lower-case literals, which finds the same spans    *)
(* (the captured groups hold digits, commas and dots only).  A match is    *)
(* [found, g1, g0, groups]: group(1), group(0) and whether the pattern     *)
(* has a group at all.                                                     *)
(***************************************************************************)
NoMatch == [found |-> FALSE, g1 |-> <<>>, g0 |-> <<>>, groups |-> FALSE]

Matched(t, i, gEnd, end, hasGroup, gStart) ==
  [found |-> TRUE, g1 |-> SubSeq(t, gStart, gEnd - 1),
   g0 |-> SubSeq(t, i, end - 1), groups |-> hasGroup]

EuroSign == "euro-sign"

\*  SYM(\d+(?:,\d{3})*(?:\.\d{2})?)  : every part after \d+ is optional, so the
\*  greedy first attempt is the match
MatchMoney(p, t, i) ==
  LET s == i + Len(p.sym)
      j == RunEnd(t, s, Digit)
      k == CommaGroupsEnd(t, j)
      m == IF k <= Len(t) /\ t[k] = "." /\ DigitsAt(t, k + 1, 2) THEN k + 3 ELSE k
  IN  IF Lit(t, i, p.sym) /\ j > s THEN Matched(t, i, m, m, TRUE, s) ELSE NoMatch

\*  SYM(\d+)k  : a shorter \d+ leaves a digit where k must stand
MatchKilo(p, t, i) ==
  LET s == i + Len(p.sym)
      j == RunEnd(t, s, Digit)
  IN  IF Lit(t, i, p.sym) /\ j > s /\ Lit(t, j, <<"k">>)
        THEN Matched(t, i, j, j + 1, TRUE, s) ELSE NoMatch

\*  (\d+(?:\.\d+)?)\s*UNIT  : with the fraction first, then without it
MatchDecimalUnit(p, t, i) ==
  LET j  == RunEnd(t, i, Digit)
      k  == IF j <= Len(t) /\ t[j] = "." THEN RunEnd(t, j + 1, Digit) ELSE j
      hasFrac == k > j + 1
      m1 == RunEnd(t, k, Whitespace)
      m2 == RunEnd(t, j, Whitespace)
  IN  IF j = i THEN NoMatch
      ELSE IF hasFrac /\ Lit(t, m1, p.unit)
        THEN Matched(t, i, k, m1 + Len(p.unit), TRUE, i)
      ELSE IF Lit(t, m2, p.unit)
        THEN Matched(t, i, j, m2 + Len(p.unit), TRUE, i)
      ELSE NoMatch

\*  (\d+(?:,\d{3})*)\s*UNIT  and  ...UNITs?  : fewer comma groups leave a comma
\*  where white space or the unit must stand
MatchGroupedUnit(p, t, i) ==
  LET j == RunEnd(t, i, Digit)
      k == CommaGroupsEnd(t, j)
      m == RunEnd(t, k, Whitespace)
      e == m + Len(p.unit)
      f == IF p.plural /\ Lit(t, e, <<"s">>) THEN e + 1 ELSE e
  IN  IF j > i /\ Lit(t, m, p.unit) THEN Matched(t, i, k, f, TRUE, i) ELSE NoMatch

\*  (\d+)SEP*UNIT TAIL  with SEP = \s or [\-\s]; TAIL is empty or \s*hackathon
MatchCountUnit(p, t, i) ==
  LET j == RunEnd(t, i, Digit)
      m == RunEnd(t, j, p.sep)
      e == m + Len(p.unit)
      f == RunEnd(t, e, Whitespace)
      g == IF p.tail = <<>> THEN e ELSE f + Len(p.tail)
  IN  IF j > i /\ Lit(t, m, p.unit) /\ (p.tail = <<>> \/ Lit(t, f, p.tail))
        THEN Matched(t, i, j, g, TRUE, i) ELSE NoMatch

\*  FIRST\s*SECOND  : no group
MatchPhrase(p, t, i) ==
  LET m == RunEnd(t, i + Len(p.first), Whitespace)
  IN  IF Lit(t, i, p.first) /\ Lit(t, m, p.second)
        THEN Matched(t, i, i, m + Len(p.second), FALSE, i) ELSE NoMatch

\* re.match of pattern p at position i of t
MatchAt(p, t, i) ==
  CASE p.kind = "money"        -> MatchMoney(p, t, i)
    [] p.kind = "kilo"         -> MatchKilo(p, t, i)
    [] p.kind = "decimal_unit" -> MatchDecimalUnit(p, t, i)
    [] p.kind = "grouped_unit" -> MatchGroupedUnit(p, t, i)
    [] p.kind = "count_unit"   -> MatchCountUnit(p, t, i)
    [] p.kind = "phrase"       -> MatchPhrase(p, t, i)

\* re.search(p, text, re.IGNORECASE): the leftmost position with a match
RECURSIVE SearchFrom(_, _, _)
SearchFrom(p, t, i) ==
  IF i > Len(t) THEN NoMatch
  ELSE LET m == MatchAt(p, t, i)
       IN  IF m.found THEN m ELSE SearchFrom(p, t, i + 1)

Search(p, text) == SearchFrom(p, Lower(text), 1)

(***************************************************************************)
(* enrichment.py                                                           *)
(***************************************************************************)
\* a value that is not a str (an int, None) where a text is expected
NotAString == <<"<not-a-str>">>

IsStr(x) == x # NotAString

\* the (regex, currency) list, in its declared order
_parse_prize_patterns ==
  << [kind |-> "money", sym |-> <<"$">>, currency |-> "USD"],
     [kind |-> "kilo", sym |-> <<"$">>, currency |-> "USD"],
     [kind |-> "money", sym |-> <<EuroSign>>, currency |-> "EUR"],
     [kind |-> "kilo", sym |-> <<EuroSign>>, currency |-> "EUR"],
     [kind |-> "decimal_unit", unit |-> <<"e", "t", "h">>, currency |-> "ETH"],
     [kind |-> "decimal_unit", unit |-> <<"b", "t", "c">>, currency |-> "BTC"],
     [kind |-> "grouped_unit", unit |-> <<"u", "s", "d">>, plural |-> FALSE,
      currency |-> "USD"],
     [kind |-> "grouped_unit", unit |-> <<"d", "o", "l", "l", "a", "r">>,
      plural |-> TRUE, currency |-> "USD"] >>

HourWord == <<"h", "o", "u", "r">>

DayWord == <<"d", "a", "y">>

WeekendWord == <<"w", "e", "e", "k", "e", "n", "d">>

SprintWord == <<"s", "p", "r", "i", "n", "t">>

HackathonWord == <<"h", "a", "c", "k", "a", "t", "h", "o", "n">>

\* the (regex, hours) list, in its declared order
_parse_duration_patterns ==
  << [kind |-> "count_unit", sep |-> Whitespace, unit |-> HourWord, tail |-> <<>>,
      multiplier |-> 1],
     [kind |-> "count_unit", sep |-> Whitespace, unit |-> DayWord, tail |-> <<>>,
      multiplier |-> 24],
     [kind |-> "phrase", first |-> WeekendWord, second |-> SprintWord,
      multiplier |-> 48],
     [kind |-> "phrase", first |-> WeekendWord, second |-> HackathonWord,
      multiplier |-> 48],
     [kind |-> "count_unit", sep |-> Whitespace \cup {"-"}, unit |-> HourWord,
      tail |-> HackathonWord, multiplier |-> 1],
     [kind |-> "count_unit", sep |-> Whitespace \cup {"-"}, unit |-> DayWord,
      tail |-> HackathonWord, multiplier |-> 24] >>

\* mock_rates, as exact rationals
MockRates ==
  [USD |-> [n |-> 1, d |-> 1], ETH |-> [n |-> 2800, d |-> 1],
   BTC |-> [n |-> 45000, d |-> 1], EUR |-> [n |-> 23, d |-> 25]]

\* [raised, rate]
_get_currency_conversion_rate(from_currency) ==
  IF from_currency \notin DOMAIN MockRates
    THEN [raised |-> "CurrencyNotSupportedError", rate |-> RatInt(0)]
    ELSE [raised |-> "", rate |-> MockRates[from_currency]]

\* the amount a matched prize rule yields: [raised, prize, currency]
PrizeOfMatch(m, currency) ==
  LET amount == ParseFloat(Remove(m.g1, ","))
      scaled == IF Contains(Lower(m.g0), <<"k">>) THEN RatMul(amount, 1000, 1)
                ELSE amount
      conv   == _get_currency_conversion_rate(currency)
  IN  IF currency = "USD"
        THEN [raised |-> "", prize |-> scaled, currency |-> currency]
      ELSE IF conv.raised # ""
        THEN [raised |-> conv.raised, prize |-> RatInt(0), currency |-> currency]
      ELSE [raised |-> "", prize |-> RatMul(scaled, conv.rate.n, conv.rate.d),
            currency |-> currency]

\* a loop over the prize rules in which the last rule that matches decides
RECURSIVE PrizeFrom_LastRuleWins(_, _, _)
PrizeFrom_LastRuleWins(patterns, text, k) ==
  IF k > Len(patterns)
    THEN [raised |-> "ValueError", prize |-> RatInt(0), currency |-> ""]
    ELSE LET m == Search(patterns[k], text)
             later == PrizeFrom_LastRuleWins(patterns, text, k + 1)
         IN  IF later.raised = "" THEN later
             ELSE IF m.found THEN PrizeOfMatch(m, patterns[k].currency)
             ELSE later

\* the loop over the prize rules from rule k on
RECURSIVE PrizeFrom(_, _, _)
PrizeFrom(patterns, text, k) ==
  IF k > Len(patterns)
    THEN [raised |-> "ValueError", prize |-> RatInt(0), currency |-> ""]
    ELSE LET m == Search(patterns[k], text)
         IN  IF m.found THEN PrizeOfMatch(m, patterns[k].currency)
             ELSE PrizeFrom(patterns, text, k + 1)

\* [raised, prize, currency]
extract_prize_amount(text) ==
  IF ~IsStr(text)
    THEN [raised |-> "TypeError", prize |-> RatInt(0), currency |-> ""]
    ELSE PrizeFrom(_parse_prize_patterns, text, 1)

\* the loop over the duration rules from rule k on
RECURSIVE DurationFrom(_, _, _)
DurationFrom(patterns, text, k) ==
  IF k > Len(patterns)
    THEN [raised |-> "ValueError", hours |-> 0]
    ELSE LET m == Search(patterns[k], text)
         IN  IF m.found
               THEN [raised |-> "",
                     hours  |-> IF m.groups
                                  THEN ParseInt(m.g1) * patterns[k].multiplier
                                  ELSE patterns[k].multiplier]
               ELSE DurationFrom(patterns, text, k + 1)

\* [raised, hours]
parse_duration(text) ==
  IF ~IsStr(text)
    THEN [raised |-> "TypeError", hours |-> 0]
    ELSE DurationFrom(_parse_duration_patterns, text, 1)

\* calculate_roi that answers 0.0 for a zero duration instead of raising
calculate_roi_ZeroAllowed(prize_value, duration_hours) ==
  IF duration_hours < 0
    THEN [raised |-> "ValueError", roi |-> RatInt(0)]
  ELSE IF duration_hours = 0
    THEN [raised |-> "", roi |-> RatInt(0)]
  ELSE [raised |-> "", roi |-> RatDivInt(prize_value, duration_hours)]

\* [raised, roi] for a numeric prize (a rational) and an integer duration
calculate_roi(prize_value, duration_hours) ==
  IF duration_hours <= 0
    THEN [raised |-> "ValueError", roi |-> RatInt(0)]
    ELSE [raised |-> "", roi |-> RatDivInt(prize_value, duration_hours)]

MonthNames ==
  << <<"j", "a", "n", "u", "a", "r", "y">>, <<"f", "e", "b", "r", "u", "a", "r", "y">>,
     <<"m", "a", "r", "c", "h">>, <<"a", "p", "r", "i", "l">>, <<"m", "a", "y">>,
     <<"j", "u", "n", "e">>, <<"j", "u", "l", "y">>, <<"a", "u", "g", "u", "s", "t">>,
     <<"s", "e", "p", "t", "e", "m", "b", "e", "r">>, <<"o", "c", "t", "o", "b", "e", "r">>,
     <<"n", "o", "v", "e", "m", "b", "e", "r">>, <<"d", "e", "c", "e", "m", "b", "e", "r">> >>

DaySuffixes == { <<"s", "t">>, <<"n", "d">>, <<"r", "d">>, <<"t", "h">> }

\* None, for the optional deadline
None == <<>>

\* an empty dict
EmptyDict == [x \in {} |-> 0]

\* the rest of the deadline regex after a day of len digits at d:
\*  (?:st|nd|rd|th)?(?:,)?\s*(\d{4}) ; <<>> or <<day, year>>
DeadlineTail(t, d, len) ==
  LET e == d + len
      s == IF \E x \in DaySuffixes : Lit(t, e, x) THEN e + 2 ELSE e
      c == IF Lit(t, s, <<",">>) THEN s + 1 ELSE s
      w == RunEnd(t, c, Whitespace)
  IN  IF DigitsAt(t, d, len) /\ DigitsAt(t, w, 4)
        THEN <<ParseInt(SubSeq(t, d, e - 1)), ParseInt(SubSeq(t, w, w + 3))>>
        ELSE <<>>

\* the deadline regex at position i:  (MONTH)\s+(\d{1,2})... ; the day takes two
\* digits first and one digit on backtracking; <<>> or <<month, day, year>>
DeadlineAt(t, i) ==
  LET ms == {m \in 1..12 : Lit(t, i, MonthNames[m])}
  IN  IF ms = {} THEN <<>>
      ELSE LET m  == CHOOSE x \in ms : TRUE
               a  == i + Len(MonthNames[m])
               d  == RunEnd(t, a, Whitespace)
               t2 == DeadlineTail(t, d, 2)
               t1 == DeadlineTail(t, d, 1)
           IN  IF d = a THEN <<>>
               ELSE IF t2 # <<>> THEN <<m>> \o t2
               ELSE IF t1 # <<>> THEN <<m>> \o t1
               ELSE <<>>

RECURSIVE DeadlineSearch(_, _)
DeadlineSearch(t, i) ==
  IF i > Len(t) THEN <<>>
  ELSE IF DeadlineAt(t, i) # <<>> THEN DeadlineAt(t, i)
  ELSE DeadlineSearch(t, i + 1)

IsLeap(y) == (y % 4 = 0 /\ y % 100 # 0) \/ y % 400 = 0

DaysInMonth(m, y) ==
  IF m = 2 THEN (IF IsLeap(y) THEN 29 ELSE 28)
  ELSE IF m \in {4, 6, 9, 11} THEN 30 ELSE 31

\* None, or <<year, month, day>> for the ISO timestamp of that day with "Z";
\* a matched date that strptime rejects gives None
detect_deadline(text) ==
  LET m == DeadlineSearch(Lower(text), 1)
  IN  IF m = <<>> THEN None
      ELSE IF m[3] >= 1 /\ m[2] >= 1 /\ m[2] <= DaysInMonth(m[1], m[3])
        THEN <<m[3], m[1], m[2]>>
      ELSE None

\* a default duration of one day instead of a weekend
DefaultDuration_OneDay == 1 * 24

\* the duration assumed when no duration rule matches
DefaultDuration == 48

Raise(e) == [raised |-> e, ret |-> <<>>]

Return(v) == [raised |-> "", ret |-> v]

\* dict.get(key, default)
Get(dict, key, default) == IF key \in DOMAIN dict THEN dict[key] ELSE default

\* an enrich_event that keeps a count between calls and reports it as the prize
enrich_event_CountsQueue(tw) ==
  IF "tweet_id" \notin DOMAIN tw \/ "text" \notin DOMAIN tw
    THEN Raise("ValueError")
    ELSE Return([tweet_id |-> tw.tweet_id,
                 prize_value |-> RatInt(Len(queueFile.events)),
                 duration_hours |-> DefaultDuration,
                 roi_score |-> RatInt(0),
                 currency_detected |-> "USD",
                 registration_deadline |-> detect_deadline(tw.text),
                 user |-> Get(tw, "user", EmptyDict)])

\* enrich_event from line 151 on, where p is what extract_prize_amount ended
\* with: [raised, ret]
EnrichWithPrize(tw, p) ==
    LET text == tw.text
        prize    == IF p.raised = "ValueError" THEN RatInt(0) ELSE p.prize
        currency == IF p.raised = "ValueError" THEN "USD" ELSE p.currency
        d    == parse_duration(text)
        duration == IF d.raised = "ValueError" THEN DefaultDuration ELSE d.hours
        r    == IF prize.n # 0 /\ duration # 0
                  THEN calculate_roi(prize, duration)
                  ELSE [raised |-> "", roi |-> RatInt(0)]
    IN  IF p.raised \notin {"", "ValueError"} THEN Raise(p.raised)
        ELSE IF d.raised \notin {"", "ValueError"} THEN Raise(d.raised)
        ELSE IF r.raised # "" THEN Raise(r.raised)
        ELSE Return([tweet_id |-> tw.tweet_id,
                     prize_value |-> prize,
                     duration_hours |-> duration,
                     roi_score |-> r.roi,
                     currency_detected |-> currency,
                     registration_deadline |-> detect_deadline(text),
                     user |-> Get(tw, "user", EmptyDict)])

\* [raised, ret]: the enriched event, or the exception that leaves enrich_event
enrich_event(tw) ==
  IF "tweet_id" \notin DOMAIN tw \/ "text" \notin DOMAIN tw
    THEN Raise("ValueError")
    ELSE EnrichWithPrize(tw, extract_prize_amount(tw.text))

(***************************************************************************)
(* alert.py                                                                *)
(*                                                                         *)
(* The digest queue lives in data/digest_queue.json.  The file is absent,  *)
(* holds a JSON list of events, or is unreadable.  json.dump followed by   *)
(* json.load gives back the same list for the events of the model (dicts   *)
(* of strings, numbers and None).                                          *)
(***************************************************************************)
AbsentFile == [state |-> "absent", events |-> <<>>]

OkFile(events) == [state |-> "ok", events |-> events]

CorruptFile == [state |-> "corrupt", events |-> <<>>]

\* what a write of the queue file can do: succeed, fail to open the file (the
\* file is left as it was), or fail after the file was truncated
SaveOutcomes == {"ok", "open_failed", "write_failed"}

\* the list read from the file; [] when the file is absent or cannot be read
_load_digest_queue(file, readOk) ==
  IF file.state = "ok" /\ readOk THEN file.events ELSE <<>>

\* [file, ret]: the file afterwards and the boolean returned
_save_digest_queue(file, events, outcome) ==
  IF outcome = "ok" THEN [file |-> OkFile(events), ret |-> TRUE]
  ELSE IF outcome = "open_failed" THEN [file |-> file, ret |-> FALSE]
  ELSE [file |-> CorruptFile, ret |-> FALSE]

validate_enrichment_data(data) ==
  {"tweet_id", "prize_value", "duration_hours", "roi_score"} \subseteq DOMAIN data

\* dict.get(key) taken as true whenever the key is present
Truthy_KeyPresent(dict, key) == key \in DOMAIN dict

\* dict.get(key) is truthy: the key is present and its value is neither None
\* nor the empty string
Truthy(dict, key) == key \in DOMAIN dict /\ dict[key] # <<>>

\* format_alert_message with the currency optional, "USD" when it is missing
format_alert_message_CurrencyOptional(event) ==
  IF ~({"prize_value", "duration_hours"} \subseteq DOMAIN event)
    THEN Raise("ValueError")
    ELSE Return(<< <<"Prize", event.prize_value,
                     Get(event, "currency_detected", "USD")>>,
                   <<"Duration", event.duration_hours>> >>
                \o (IF Truthy(event, "registration_deadline")
                      THEN << <<"Deadline", event.registration_deadline>> >> ELSE <<>>)
                \o (IF Truthy(event, "expanded_url")
                      THEN << <<"Link", event.expanded_url>> >> ELSE <<>>))

\* [raised, ret]: the message as its lines
format_alert_message(event) ==
  IF ~({"prize_value", "duration_hours", "currency_detected"} \subseteq DOMAIN event)
    THEN Raise("ValueError")
    ELSE Return(<< <<"Prize", event.prize_value, event.currency_detected>>,
                   <<"Duration", event.duration_hours>> >>
                \o (IF Truthy(event, "registration_deadline")
                      THEN << <<"Deadline", event.registration_deadline>> >> ELSE <<>>)
                \o (IF Truthy(event, "expanded_url")
                      THEN << <<"Link", event.expanded_url>> >> ELSE <<>>))

AlertPriority == {"low", "normal", "high", "urgent"}

AlertChannel == {"console", "email", "webhook", "slack"}

\* [raised, ret, out]: out is what the channel received
send_alert(title, body, priority, channel) ==
  IF priority \notin AlertPriority \/ channel \notin AlertChannel
    THEN [raised |-> "ValueError", ret |-> FALSE, out |-> <<>>]
    ELSE [raised |-> "", ret |-> TRUE,
          out |-> << [title |-> title, body |-> body, priority |-> priority,
                      channel |-> channel] >>]

\* the fixed cutoff of check_alert_threshold
AlertCutoff == 200

\* check_alert_threshold with the cutoff itself counted as above it
check_alert_threshold_Inclusive(roi_score) ==
  roi_score.n >= AlertCutoff * roi_score.d

check_alert_threshold(roi_score) == RatGreater(roi_score, AlertCutoff)

\* [raised, ret, out]
send_immediate_alert(event) ==
  IF ~validate_enrichment_data(event)
    THEN [raised |-> "ValueError", ret |-> FALSE, out |-> <<>>]
  ELSE LET message == format_alert_message(event)
       IN  IF message.raised # ""
             THEN [raised |-> message.raised, ret |-> FALSE, out |-> <<>>]
             ELSE send_alert("High ROI Event", message.ret, "high", "console")

\* [raised, ret, file]
queue_for_digest(event, file, readOk, saveOutcome) ==
  IF ~validate_enrichment_data(event)
    THEN [raised |-> "ValueError", ret |-> FALSE, file |-> file]
  ELSE LET queue == Append(_load_digest_queue(file, readOk), event)
       IN  [raised |-> "", ret |-> TRUE,
            file |-> _save_digest_queue(file, queue, saveOutcome).file]

\* the loop of send_daily_digest from event k on: [raised, out]
RECURSIVE DigestLoop(_, _)
DigestLoop(events, k) ==
  IF k > Len(events) THEN [raised |-> "", out |-> <<>>]
  ELSE LET message == format_alert_message(events[k])
       IN  IF message.raised # "" THEN [raised |-> message.raised, out |-> <<>>]
           ELSE LET sent == send_alert("Daily Digest", message.ret, "normal", "console")
                    rest == DigestLoop(events, k + 1)
                IN  [raised |-> rest.raised, out |-> sent.out \o rest.out]

\* send_daily_digest that rewrites the queue file even when the queue is empty
send_daily_digest_AlwaysSaves(file, readOk, saveOutcome) ==
  LET events == _load_digest_queue(file, readOk)
      loop   == DigestLoop(events, 1)
  IN  IF loop.raised # ""
        THEN [raised |-> loop.raised, ret |-> FALSE, out |-> loop.out, file |-> file]
      ELSE [raised |-> "", ret |-> TRUE, out |-> loop.out,
            file |-> _save_digest_queue(file, <<>>, saveOutcome).file]

\* [raised, ret, out, file]
send_daily_digest(file, readOk, saveOutcome) ==
  LET events == _load_digest_queue(file, readOk)
      loop   == DigestLoop(events, 1)
  IN  IF events = <<>>
        THEN [raised |-> "", ret |-> TRUE, out |-> <<>>, file |-> file]
      ELSE IF loop.raised # ""
        THEN [raised |-> loop.raised, ret |-> FALSE, out |-> loop.out, file |-> file]
      ELSE [raised |-> "", ret |-> TRUE, out |-> loop.out,
            file |-> _save_digest_queue(file, <<>>, saveOutcome).file]

(***************************************************************************)
(* Inputs of the enricher                                                  *)
(***************************************************************************)
\* the words the enumerated texts are built from
Vocabulary ==
  { <<"$">>, <<"0">>, <<"2">>, <<".">>, <<"k">>, <<" ">>, <<"-">>,
    HourWord, DayWord, <<"e", "t", "h">>, HackathonWord }

\* every text of at most n vocabulary words
RECURSIVE TextsUpTo(_)
TextsUpTo(n) ==
  IF n = 0 THEN { <<>> }
  ELSE LET shorter == TextsUpTo(n - 1)
       IN  shorter \cup { t \o w : t \in shorter, w \in Vocabulary }

\* spec scenario 1 and the sample tweet of test_scoring.py
Scenario1Text ==
  <<"A", "I", " ", "H", "a", "c", "k", "a", "t", "h", "o", "n", " ", "t", "h",
    "i", "s", " ", "w", "e", "e", "k", "e", "n", "d", "!", " ", "$", "1", "0",
    ".", "8", "k", " ", "p", "r", "i", "z", "e", " ", "p", "o", "o", "l", ",",
    " ", "4", "8", "-", "h", "o", "u", "r", " ", "s", "p", "r", "i", "n", "t",
    ".", " ", "S", "o", "l", "o", " ", "d", "e", "v", "e", "l", "o", "p", "e",
    "r", "s", " ", "w", "e", "l", "c", "o", "m", "e", "!", " ", "#", "A", "I",
    "H", "a", "c", "k">>

\* a prize in the "$10k" shorthand
KFormatText ==
  <<"W", "i", "n", " ", "$", "1", "0", "k", " ", "t", "h", "i", "s", " ", "w",
    "e", "e", "k", "e", "n", "d">>

\* a grouped dollar amount and a hyphenated duration
UsdPrizeText ==
  <<"$", "1", "0", ",", "8", "0", "0", " ", "p", "r", "i", "z", "e", " ", "p",
    "o", "o", "l", ",", " ", "7", "2", "-", "h", "o", "u", "r", " ", "h", "a",
    "c", "k", "a", "t", "h", "o", "n">>

\* a prize in ETH and a duration in days
EthPrizeText ==
  <<"5", ".", "5", " ", "E", "T", "H", ",", " ", "3", " ", "d", "a", "y">>

\* a text that states a duration of 0 hours
ZeroHoursText ==
  <<"$", "1", "0", "0", " ", "f", "o", "r", " ", "a", " ", "0", " ", "h", "o",
    "u", "r", " ", "d", "e", "m", "o">>

\* a text that states a duration of 0 days
ZeroDaysText ==
  <<"0", " ", "d", "a", "y", "s", " ", "l", "e", "f", "t", ",", " ", "2", " ",
    "B", "T", "C">>

\* neither a prize nor a duration
NoMentionText ==
  <<"C", "o", "o", "k", "i", "n", "g", " ", "r", "e", "c", "i", "p", "e", "s",
    " ", "a", "n", "d", " ", "g", "a", "r", "d", "e", "n", "i", "n", "g", " ",
    "t", "i", "p", "s">>

\* a deadline, a prize in dollars and a fixed 48 h phrase
DeadlineText ==
  <<"R", "e", "g", "i", "s", "t", "e", "r", " ", "b", "y", " ", "D", "e", "c",
    "e", "m", "b", "e", "r", " ", "3", "1", "s", "t", ",", " ", "2", "0", "2",
    "4", ":", " ", "5", "0", "0", " ", "d", "o", "l", "l", "a", "r", "s", ",",
    " ", "w", "e", "e", "k", "e", "n", "d", " ", "s", "p", "r", "i", "n", "t">>

\* "5 ETH or $100, 3 days or 2 hours": the ETH rule and the day rule match
\* earlier in the text than the dollar rule and the hour rule
LaterRulesFirstText ==
  <<"5", " ", "E", "T", "H", " ", "o", "r", " ", "$", "1", "0", "0", ",", " ",
    "3", " ", "d", "a", "y", "s", " ", "o", "r", " ", "2", " ", "h", "o", "u",
    "r", "s">>

ScenarioTexts ==
  { Scenario1Text, KFormatText, UsdPrizeText, EthPrizeText, ZeroHoursText,
    ZeroDaysText, NoMentionText, DeadlineText, LaterRulesFirstText }

Texts == TextsUpTo(MaxWords) \cup ScenarioTexts

\* the link of a source post
SourceLink ==
  <<"h", "t", "t", "p", "s", ":", "/", "/", "x", ".", "c", "o", "m", "/", "a",
    "/", "s", "t", "a", "t", "u", "s", "/", "1">>

\* a post that carries the link the scorer passes on
LinkedTweet ==
  [tweet_id |-> "t1", text |-> UsdPrizeText, expanded_url |-> SourceLink]

EnrichCalls ==
  { [op |-> "enrich_event", tweet |-> [tweet_id |-> "t1", text |-> t]] : t \in Texts }
    \cup { [op |-> "enrich_event", tweet |-> tw] :
             tw \in { [tweet_id |-> "t1"], [text |-> NoMentionText],
                      [tweet_id |-> "t1", text |-> NotAString], LinkedTweet } }

RoiPrizes == { RatInt(-5), RatInt(0), Rat(1, 2), RatInt(100), RatInt(10000) }

RoiDurations == { -10, -1, 0, 1, 2, 48 }

RoiCalls ==
  { [op |-> "calculate_roi", prize_value |-> p, duration_hours |-> d] :
      p \in RoiPrizes, d \in RoiDurations }

\* no call has returned yet
Pending == [raised |-> "pending", ret |-> <<>>]

(***************************************************************************)
(* The enricher as a state machine: one call, then its outcome             *)
(***************************************************************************)
InitEnrich ==
  /\ call \in EnrichCalls \cup RoiCalls
  /\ result = Pending
  /\ queueFile = AbsentFile
  /\ delivered = <<>>
  /\ last = AbsentFile
  /\ history = {}

EnrichEvent ==
  /\ call.op = "enrich_event"
  /\ result.raised = "pending"
  /\ result' = enrich_event(call.tweet)
  /\ UNCHANGED <<call, queueFile, delivered, last, history>>

CalculateRoi ==
  /\ call.op = "calculate_roi"
  /\ result.raised = "pending"
  /\ result' = LET r == calculate_roi(call.prize_value, call.duration_hours)
               IN  IF r.raised # "" THEN Raise(r.raised) ELSE Return(r.roi)
  /\ UNCHANGED <<call, queueFile, delivered, last, history>>

NextEnrich == EnrichEvent \/ CalculateRoi

SpecEnrich == InitEnrich /\ [][NextEnrich]_vars

(***************************************************************************)
(* The enricher with the rule list as _parse_prize_patterns may return it: *)
(* the shipped list, or the list with a rule for a currency that           *)
(* mock_rates does not hold.                                               *)
(***************************************************************************)
XyzWord == <<"x", "y", "z">>

\* the shipped rules and  (\d+(?:\.\d+)?)\s*XYZ
ExtendedPrizePatterns ==
  Append(_parse_prize_patterns,
         [kind |-> "decimal_unit", unit |-> XyzWord, currency |-> "XYZ"])

PrizePatternLists == {_parse_prize_patterns, ExtendedPrizePatterns}

CurrencyCodes == {"USD", "ETH", "BTC", "EUR", "XYZ"}

CurrencyVocabulary ==
  { <<"5">>, <<" ">>, <<"$">>, <<"k">>, XyzWord, <<"e", "t", "h">> }

RECURSIVE CurrencyTextsUpTo(_)
CurrencyTextsUpTo(n) ==
  IF n = 0 THEN { <<>> }
  ELSE LET shorter == CurrencyTextsUpTo(n - 1)
       IN  shorter \cup { t \o w : t \in shorter, w \in CurrencyVocabulary }

CurrencyCalls ==
  { [op |-> "enrich_event", tweet |-> [tweet_id |-> "t1", text |-> t],
     patterns |-> p] : t \in CurrencyTextsUpTo(MaxWords), p \in PrizePatternLists }
    \cup { [op |-> "_get_currency_conversion_rate", from_currency |-> c] :
              c \in CurrencyCodes }

InitCurrency ==
  /\ call \in CurrencyCalls
  /\ result = Pending
  /\ queueFile = AbsentFile
  /\ delivered = <<>>
  /\ last = AbsentFile
  /\ history = {}

\* enrich_event while _parse_prize_patterns returns call.patterns
EnrichEventWithPatterns ==
  /\ call.op = "enrich_event"
  /\ result.raised = "pending"
  /\ result' = EnrichWithPrize(call.tweet, PrizeFrom(call.patterns, call.tweet.text, 1))
  /\ UNCHANGED <<call, queueFile, delivered, last, history>>

GetCurrencyConversionRate ==
  /\ call.op = "_get_currency_conversion_rate"
  /\ result.raised = "pending"
  /\ result' = LET conv == _get_currency_conversion_rate(call.from_currency)
               IN  IF conv.raised # "" THEN Raise(conv.raised) ELSE Return(conv.rate)
  /\ UNCHANGED <<call, queueFile, delivered, last, history>>

NextCurrency == EnrichEventWithPatterns \/ GetCurrencyConversionRate

SpecCurrency == InitCurrency /\ [][NextCurrency]_vars

(***************************************************************************)
(* scoring.py.  Weights are in tenths, scores in thousandths.              *)
(***************************************************************************)
\* ai_terms
AiTerms ==
  << <<"a", "i">>,
     <<"a", "r", "t", "i", "f", "i", "c", "i", "a", "l", " ", "i", "n", "t", "e", "l", "l", "i", "g", "e", "n", "c", "e">>,
     <<"m", "a", "c", "h", "i", "n", "e", " ", "l", "e", "a", "r", "n", "i", "n", "g">>,
     <<"m", "l">>,
     <<"n", "e", "u", "r", "a", "l">>,
     <<"d", "e", "e", "p", " ", "l", "e", "a", "r", "n", "i", "n", "g">> >>

\* crypto_terms
CryptoTerms ==
  << <<"c", "r", "y", "p", "t", "o">>,
     <<"b", "l", "o", "c", "k", "c", "h", "a", "i", "n">>,
     <<"b", "i", "t", "c", "o", "i", "n">>,
     <<"e", "t", "h", "e", "r", "e", "u", "m">>,
     <<"d", "e", "f", "i">>,
     <<"w", "e", "b", "3">>,
     <<"n", "f", "t">> >>

\* hackathon_indicators of extract_keywords
HackathonIndicators ==
  << <<"h", "a", "c", "k", "a", "t", "h", "o", "n">>,
     <<"h", "a", "c", "k">>,
     <<"c", "h", "a", "l", "l", "e", "n", "g", "e">>,
     <<"c", "o", "m", "p", "e", "t", "i", "t", "i", "o", "n">>,
     <<"s", "p", "r", "i", "n", "t">> >>

\* hackathon_indicators of _build_keyword_weights, in tenths
IndicatorWeights ==
  (<<"h", "a", "c", "k", "a", "t", "h", "o", "n">> :> 10) @@
  (<<"h", "a", "c", "k">> :> 8) @@
  (<<"c", "h", "a", "l", "l", "e", "n", "g", "e">> :> 8) @@
  (<<"c", "o", "m", "p", "e", "t", "i", "t", "i", "o", "n">> :> 8) @@
  (<<"s", "p", "r", "i", "n", "t">> :> 8) @@
  (<<"b", "o", "u", "n", "t", "y">> :> 10) @@
  (<<"c", "o", "n", "t", "e", "s", "t">> :> 6)

KwAi == <<"a", "i">>

KwAiUpper == <<"A", "I">>

KwBounty == <<"b", "o", "u", "n", "t", "y">>

KwHackathonCap == <<"H", "a", "c", "k", "a", "t", "h", "o", "n">>

TagAiHack == <<"#", "A", "I", "H", "a", "c", "k">>

KwWeb3 == <<"w", "e", "b", "3">>

\* a keyword-stuffed text
StuffedText ==
  <<"a", "i", " ", "m", "l", " ", "n", "e", "u", "r", "a", "l", " ", "d", "e", "e", "p", " ", "l", "e", "a", "r", "n", "i", "n", "g", " ", "m", "a", "c", "h", "i", "n", "e", " ", "l", "e", "a", "r", "n", "i", "n", "g", " ", "c", "r", "y", "p", "t", "o", " ", "h", "a", "c", "k", "a", "t", "h", "o", "n", " ", "c", "h", "a", "l", "l", "e", "n", "g", "e", " ", "c", "o", "m", "p", "e", "t", "i", "t", "i", "o", "n", " ", "s", "p", "r", "i", "n", "t", " ", "b", "o", "u", "n", "t", "y">>

\* the thresholds of the test configuration
FollowerMin == 2000

FollowerMax == 50000

SampleConfig == [follower_min |-> FollowerMin, follower_max |-> FollowerMax]

\* a configuration whose band is a single value
NarrowConfig == [follower_min |-> FollowerMin, follower_max |-> FollowerMin]

\* check_follower_fit that takes a negative count as outside the band
check_follower_fit_NegativeAllowed(follower_count, config) ==
  Return(IF config.follower_min <= follower_count
            /\ follower_count <= config.follower_max THEN 1 ELSE 0)

\* check_follower_fit with the upper bound excluded
check_follower_fit_ExclusiveMax(follower_count, config) ==
  IF follower_count < 0 THEN Raise("ValueError")
  ELSE Return(IF config.follower_min <= follower_count
                   /\ follower_count < config.follower_max THEN 1 ELSE 0)

\* [raised, ret]
check_follower_fit(follower_count, config) ==
  IF follower_count < 0 THEN Raise("ValueError")
  ELSE Return(IF config.follower_min <= follower_count
                   /\ follower_count <= config.follower_max THEN 1 ELSE 0)

\* the catalog keywords found in the lower-cased text, from keyword k on, each
\* appended as the catalog spells it
RECURSIVE FoundCatalogKeywords(_, _, _)
FoundCatalogKeywords(keywords, text_lower, k) ==
  IF k > Len(keywords) THEN <<>>
  ELSE (IF Contains(text_lower, Lower(keywords[k])) THEN <<keywords[k]>> ELSE <<>>)
         \o FoundCatalogKeywords(keywords, text_lower, k + 1)

InSeq(x, seq) == \E i \in 1..Len(seq) : seq[i] = x

\* the second loop of extract_keywords, from indicator k on
RECURSIVE AddIndicators(_, _, _)
AddIndicators(found, text_lower, k) ==
  IF k > Len(HackathonIndicators) THEN found
  ELSE LET ind == HackathonIndicators[k]
       IN  AddIndicators(IF Contains(text_lower, ind) /\ ~InSeq(ind, found)
                           THEN Append(found, ind) ELSE found,
                         text_lower, k + 1)

\* [raised, ret]; catalog.status tells whether sources/catalog.json can be read
extract_keywords(text, catalog) ==
  IF ~IsStr(text) THEN Raise("TypeError")
  ELSE IF catalog.status = "missing" THEN Raise("FileNotFoundError")
  ELSE Return(AddIndicators(FoundCatalogKeywords(catalog.keywords, Lower(text), 1),
                            Lower(text), 1))

\* number of the terms that occur in the text
CountTerms(terms, text_lower) ==
  Cardinality({k \in 1..Len(terms) : Contains(text_lower, terms[k])})

\* assess_topic_confidence that adds the AI and the crypto counts
assess_topic_confidence_SumsTopics(text) ==
  IF ~IsStr(text) THEN Raise("TypeError")
  ELSE Return(Min((CountTerms(AiTerms, Lower(text))
                     + CountTerms(CryptoTerms, Lower(text))) * 200, 1000))

\* [raised, ret], ret in thousandths
assess_topic_confidence(text) ==
  IF ~IsStr(text) THEN Raise("TypeError")
  ELSE LET ai_score     == CountTerms(AiTerms, Lower(text))
           crypto_score == CountTerms(CryptoTerms, Lower(text))
       IN  Return(Min(Max(ai_score, crypto_score) * 200, 1000))

HashtagWeight(relevance) ==
  IF relevance = "High" THEN 20 ELSE IF relevance = "Medium" THEN 12 ELSE 8

\* the hashtag loop of _build_keyword_weights: a later entry overwrites
RECURSIVE HashtagWeights(_, _)
HashtagWeights(hashtags, k) ==
  IF k = 0 THEN EmptyDict
  ELSE (Lower(hashtags[k].tag) :> HashtagWeight(hashtags[k].relevance))
         @@ HashtagWeights(hashtags, k - 1)

\* the keyword loop of _build_keyword_weights
RECURSIVE KeywordWeights(_, _)
KeywordWeights(keywords, k) ==
  IF k = 0 THEN EmptyDict
  ELSE (Lower(keywords[k]) :> 16) @@ KeywordWeights(keywords, k - 1)

\* the weights dict: hashtags, overwritten by keywords, overwritten by indicators
_build_keyword_weights(catalog) ==
  IndicatorWeights @@ KeywordWeights(catalog.keywords, Len(catalog.keywords))
    @@ HashtagWeights(catalog.hashtags, Len(catalog.hashtags))

\* the weight one matched keyword adds
KeywordWeight(keyword, keyword_weights) ==
  LET keyword_lower == Lower(keyword)
      tags == {tag \in DOMAIN keyword_weights :
                 Lit(tag, 1, <<"#">>) /\ Lower(tag) = keyword_lower}
  IN  IF keyword_lower \in DOMAIN keyword_weights THEN keyword_weights[keyword_lower]
      ELSE IF Lit(keyword, 1, <<"#">>) /\ tags # {}
        THEN keyword_weights[CHOOSE tag \in tags : TRUE]
      ELSE 4

RECURSIVE SumWeights(_, _, _)
SumWeights(keywords, keyword_weights, k) ==
  IF k = 0 THEN 0
  ELSE SumWeights(keywords, keyword_weights, k - 1)
         + KeywordWeight(keywords[k], keyword_weights)

\* the weighted keyword score, in tenths
score_keywords_presence(keywords, catalog) ==
  IF keywords = <<>> THEN 0
  ELSE IF catalog.status = "missing" THEN 10 * Len(keywords)
  ELSE SumWeights(keywords, _build_keyword_weights(catalog), Len(keywords))

validate_tweet_object(tw) == {"id", "text", "user"} \subseteq DOMAIN tw

\* ScoreFormula with the topic term subtracted instead of added
ScoreFormula_TopicSubtracted(follower_fit, keyword_score, topic_confidence) ==
  follower_fit * 300 + Min(keyword_score * 2, 200) - topic_confidence \div 2

\* the weighted sum of the three components, in thousandths
ScoreFormula(follower_fit, keyword_score, topic_confidence) ==
  follower_fit * 300 + Min(keyword_score * 2, 200) + topic_confidence \div 2

\* [raised, ret]
calculate_relevance_score(tw, config, catalog) ==
  IF ~validate_tweet_object(tw) THEN Raise("ValueError")
  ELSE IF "followers_count" \notin DOMAIN tw.user THEN Raise("KeyError")
  ELSE
    LET follower_count == tw.user.followers_count
        fit      == check_follower_fit(follower_count, config)
        keywords == extract_keywords(tw.text, catalog)
        topic    == assess_topic_confidence(tw.text)
    IN  IF fit.raised # "" THEN fit
        ELSE IF keywords.raised # "" THEN keywords
        ELSE IF topic.raised # "" THEN topic
        ELSE Return([tweet_id |-> tw.id,
                     score |-> Min(ScoreFormula(fit.ret,
                                     score_keywords_presence(keywords.ret, catalog),
                                     topic.ret), 1000),
                     account_followers |-> follower_count,
                     keyword_matches |-> keywords.ret,
                     follower_fit |-> fit.ret,
                     expanded_url |-> Get(tw, "expanded_url", <<>>)])

(***************************************************************************)
(* Inputs of the scorer                                                    *)
(***************************************************************************)
ScoreVocabulary ==
  { KwAi, <<"m", "l">>, <<" ">>, HackathonWord, SprintWord, KwBounty,
    <<"b", "l", "o", "c", "k", "c", "h", "a", "i", "n">> }

RECURSIVE ScoreTextsUpTo(_)
ScoreTextsUpTo(n) ==
  IF n = 0 THEN { <<>> }
  ELSE LET shorter == ScoreTextsUpTo(n - 1)
       IN  shorter \cup { t \o w : t \in shorter, w \in ScoreVocabulary }

ScoreTexts == ScoreTextsUpTo(MaxWords) \cup {Scenario1Text, StuffedText, NotAString}

\* catalogs as sources/catalog.json may hold them
SampleCatalog ==
  [status |-> "ok", keywords |-> <<KwAiUpper, KwBounty, TagAiHack>>,
   hashtags |-> << [tag |-> TagAiHack, relevance |-> "High"],
                   [tag |-> KwWeb3, relevance |-> "Low"] >>]

\* a catalog that lists one keyword seven times
RepeatingCatalog ==
  [status |-> "ok", keywords |-> <<KwAi, KwAi, KwAi, KwAi, KwAi, KwAi, KwAi>>,
   hashtags |-> <<>>]

\* a catalog that lists a generic indicator with a capital letter
CasedCatalog == [status |-> "ok", keywords |-> <<KwHackathonCap>>, hashtags |-> <<>>]

EmptyCatalog == [status |-> "ok", keywords |-> <<>>, hashtags |-> <<>>]

MissingCatalog == [status |-> "missing", keywords |-> <<>>, hashtags |-> <<>>]

Catalogs ==
  {SampleCatalog, RepeatingCatalog, CasedCatalog, EmptyCatalog, MissingCatalog}

FollowerCounts ==
  { -100, -1, 0, 1, FollowerMin - 1, FollowerMin, FollowerMin + 1, 15000,
    FollowerMax - 1, FollowerMax, FollowerMax + 1, 100000 }

TweetFollowerCounts == { -1, 0, FollowerMin, FollowerMax, 100000 }

ScoreTweets ==
  { [id |-> "t1", text |-> t, user |-> [followers_count |-> f]] :
      t \in ScoreTexts, f \in TweetFollowerCounts }
    \cup { [id |-> "t1"], [id |-> "t1", text |-> StuffedText],
           [text |-> StuffedText, user |-> [followers_count |-> 15000]],
           [id |-> "t1", text |-> StuffedText, user |-> EmptyDict] }

ScoreCalls ==
  { [op |-> "calculate_relevance_score", tweet |-> tw, config |-> SampleConfig,
     catalog |-> c] : tw \in ScoreTweets, c \in Catalogs }

FitCalls ==
  { [op |-> "check_follower_fit", follower_count |-> f, config |-> c] :
      f \in FollowerCounts, c \in {SampleConfig, NarrowConfig} }

\* the keyword lists score_keywords_presence is handed: what extract_keywords
\* returns, and lists of single terms as the tests pass them
KeywordLists ==
  { extract_keywords(t, c).ret : t \in ScoreTexts \ {NotAString},
                                 c \in Catalogs \ {MissingCatalog} }
    \cup { <<TagAiHack>>, <<KwWeb3>>, <<KwBounty>>, <<KwAi, DayWord>> }

KeywordCalls ==
  { [op |-> "score_keywords_presence", keywords |-> k, catalog |-> c] :
      k \in KeywordLists, c \in Catalogs }

(***************************************************************************)
(* The scorer as a state machine: one call, then its outcome               *)
(***************************************************************************)
InitScore ==
  /\ call \in ScoreCalls \cup FitCalls \cup KeywordCalls
  /\ result = Pending
  /\ queueFile = AbsentFile
  /\ delivered = <<>>
  /\ last = AbsentFile
  /\ history = {}

CalculateRelevanceScore ==
  /\ call.op = "calculate_relevance_score"
  /\ result.raised = "pending"
  /\ result' = calculate_relevance_score(call.tweet, call.config, call.catalog)
  /\ UNCHANGED <<call, queueFile, delivered, last, history>>

CheckFollowerFit ==
  /\ call.op = "check_follower_fit"
  /\ result.raised = "pending"
  /\ result' = check_follower_fit(call.follower_count, call.config)
  /\ UNCHANGED <<call, queueFile, delivered, last, history>>

\* the returned sum is in tenths
ScoreKeywordsPresence ==
  /\ call.op = "score_keywords_presence"
  /\ result.raised = "pending"
  /\ result' = Return(score_keywords_presence(call.keywords, call.catalog))
  /\ UNCHANGED <<call, queueFile, delivered, last, history>>

NextScore == CalculateRelevanceScore \/ CheckFollowerFit \/ ScoreKeywordsPresence

SpecScore == InitScore /\ [][NextScore]_vars

(***************************************************************************)
(* The alert router as a state machine.  call and result are the last call *)
(* and its outcome, delivered is what that call sent to its channel, last  *)
(* is the queue file as the call found it.                                 *)
(***************************************************************************)
\* roi 250 (spec scenario 5, above the cutoff)
HighRoiText ==
  <<"$", "5", "0", "0", " ", "p", "r", "i", "z", "e", ",", " ", "2", " ", "h",
    "o", "u", "r", "s">>

\* roi exactly 200
CutoffRoiText ==
  <<"$", "2", "0", "0", " ", "p", "r", "i", "z", "e", ",", " ", "1", " ", "h",
    "o", "u", "r">>

\* roi 80 (spec scenario 5, below the cutoff)
LowRoiText ==
  <<"$", "8", "0", " ", "p", "r", "i", "z", "e", ",", " ", "1", " ", "h", "o",
    "u", "r">>

RouterTweets ==
  { [tweet_id |-> "high", text |-> HighRoiText],
    [tweet_id |-> "cutoff", text |-> CutoffRoiText],
    [tweet_id |-> "low", text |-> LowRoiText] }

\* the events step 3 of the demo run hands to step 4
PipelineEvents == { enrich_event(tw).ret : tw \in RouterTweets }

\* an event validate_enrichment_data accepts and format_alert_message rejects
NoCurrencyEvent ==
  [tweet_id |-> "nocurrency", prize_value |-> RatInt(100), duration_hours |-> 10,
   roi_score |-> RatInt(10)]

\* the incomplete event of test_validate_enrichment_data_missing_fields
IncompleteEvent == [tweet_id |-> "incomplete", prize_value |-> RatInt(10000)]

\* dict[key] = value
Put(dict, key, value) ==
  [k \in DOMAIN dict \cup {key} |-> IF k = key THEN value ELSE dict[k]]

\* an enriched event with a deadline (roi 500 / 48)
DeadlineEvent == enrich_event([tweet_id |-> "deadline", text |-> DeadlineText]).ret

\* an enriched event that carries the link of its source post
LinkedEvent ==
  Put(enrich_event([tweet_id |-> "linked", text |-> HighRoiText]).ret,
      "expanded_url", SourceLink)

\* the scorer's empty link, as tweet.get('expanded_url', '') gives it
EmptyLinkEvent ==
  Put(enrich_event([tweet_id |-> "nolink", text |-> LowRoiText]).ret,
      "expanded_url", <<>>)

\* events without a prize and without a duration
NoPrizeEvent ==
  [tweet_id |-> "noprize", duration_hours |-> 10, roi_score |-> RatInt(10),
   currency_detected |-> "USD"]

NoDurationEvent ==
  [tweet_id |-> "noduration", prize_value |-> RatInt(100), roi_score |-> RatInt(10),
   currency_detected |-> "USD"]

\* the events callers of alert.py pass
Events ==
  PipelineEvents \cup {NoCurrencyEvent, IncompleteEvent, DeadlineEvent,
                       LinkedEvent, EmptyLinkEvent}

\* the events format_alert_message is called with
FormatEvents == Events \cup {NoPrizeEvent, NoDurationEvent, EmptyDict}

NoCall == [op |-> "none", event |-> EmptyDict]

Init ==
  /\ call = NoCall
  /\ result = Pending
  /\ queueFile = AbsentFile
  /\ delivered = <<>>
  /\ last = AbsentFile
  /\ history = {}

\* step 4 of the demo run for one event: exceptions of either branch are caught
\* and reported; ret is the branch taken and whether the event was counted
RouteEvent(event, readOk, saveOutcome) ==
  /\ Len(queueFile.events) < MaxQueue
  /\ LET roi_score == Get(event, "roi_score", RatInt(0))
         alert == send_immediate_alert(event)
         queue == queue_for_digest(event, queueFile, readOk, saveOutcome)
     IN  IF check_alert_threshold(roi_score)
           THEN /\ result' = Return([decision |-> "Immediate",
                                     counted |-> alert.raised = "" /\ alert.ret])
                /\ delivered' = alert.out
                /\ queueFile' = queueFile
           ELSE /\ result' = Return([decision |-> "Digest",
                                     counted |-> queue.raised = "" /\ queue.ret])
                /\ delivered' = <<>>
                /\ queueFile' = queue.file
  /\ call' = [op |-> "route", event |-> event, readOk |-> readOk,
               saveOutcome |-> saveOutcome]
  /\ last' = queueFile
  /\ UNCHANGED history

SendImmediateAlert(event) ==
  /\ LET alert == send_immediate_alert(event)
     IN  /\ result' = [raised |-> alert.raised, ret |-> alert.ret]
         /\ delivered' = alert.out
  /\ call' = [op |-> "send_immediate_alert", event |-> event]
  /\ last' = queueFile
  /\ UNCHANGED <<queueFile, history>>

QueueForDigest(event, readOk, saveOutcome) ==
  /\ Len(queueFile.events) < MaxQueue
  /\ LET queue == queue_for_digest(event, queueFile, readOk, saveOutcome)
     IN  /\ result' = [raised |-> queue.raised, ret |-> queue.ret]
         /\ queueFile' = queue.file
  /\ delivered' = <<>>
  /\ call' = [op |-> "queue_for_digest", event |-> event, readOk |-> readOk,
               saveOutcome |-> saveOutcome]
  /\ last' = queueFile
  /\ UNCHANGED history

FormatAlertMessage(event) ==
  /\ result' = format_alert_message(event)
  /\ call' = [op |-> "format_alert_message", event |-> event]
  /\ delivered' = <<>>
  /\ last' = queueFile
  /\ UNCHANGED <<queueFile, history>>

SendDailyDigest(readOk, saveOutcome) ==
  /\ LET digest == send_daily_digest(queueFile, readOk, saveOutcome)
     IN  /\ result' = [raised |-> digest.raised, ret |-> digest.ret]
         /\ delivered' = digest.out
         /\ queueFile' = digest.file
  /\ call' = [op |-> "send_daily_digest", event |-> EmptyDict, readOk |-> readOk,
               saveOutcome |-> saveOutcome]
  /\ last' = queueFile
  /\ UNCHANGED history

Next ==
  \/ \E event \in PipelineEvents, readOk \in BOOLEAN, saveOutcome \in SaveOutcomes :
       RouteEvent(event, readOk, saveOutcome)
  \/ \E event \in Events : SendImmediateAlert(event)
  \/ \E event \in Events, readOk \in BOOLEAN, saveOutcome \in SaveOutcomes :
       QueueForDigest(event, readOk, saveOutcome)
  \/ \E event \in FormatEvents : FormatAlertMessage(event)
  \/ \E readOk \in BOOLEAN, saveOutcome \in SaveOutcomes :
       SendDailyDigest(readOk, saveOutcome)

Spec == Init /\ [][Next]_vars

(***************************************************************************)
(* scoring.py: bulk scoring of the raw data directory.  A raw file is      *)
(* unparsable ("corrupt"), holds no tweet_data ("no_tweet_data"), holds a  *)
(* tweet_data that is not a dict ("tweet_not_dict") or holds a tweet.      *)
(***************************************************************************)
\* '/photo/' and '/video/'
PhotoPath == <<"/", "p", "h", "o", "t", "o", "/">>

VideoPath == <<"/", "v", "i", "d", "e", "o", "/">>

\* f"https://x.com/{username}/status/{tweet_id}"
TweetUrl(username, tweet_id) ==
  <<"h", "t", "t", "p", "s", ":", "/", "/", "x", ".", "c", "o", "m", "/">>
    \o username \o <<"/", "s", "t", "a", "t", "u", "s", "/">> \o tweet_id

_normalize_tweet_structure(tweet) ==
  LET user       == Get(tweet, "user", EmptyDict)
      username   == Get(user, "screen_name", <<>>)
      tweet_id   == Get(tweet, "id", <<>>)
      followers  == Get(user, "followers_count", 0)
      hasRaw     == "_raw_api_response" \in DOMAIN tweet
      raw        == Get(tweet, "_raw_api_response", EmptyDict)
      rawUrl     == Get(raw, "expanded_url", <<>>)
      expanded_url ==
        IF hasRaw /\ "expanded_url" \in DOMAIN raw
          THEN IF rawUrl # <<>> /\ (Contains(rawUrl, PhotoPath) \/ Contains(rawUrl, VideoPath))
                 THEN TweetUrl(username, tweet_id)
               ELSE IF rawUrl = <<>> THEN TweetUrl(username, tweet_id)
               ELSE rawUrl
          ELSE TweetUrl(username, tweet_id)
  IN  [id |-> tweet_id,
       text |-> Get(tweet, "text", <<>>),
       user |-> [screen_name |-> username,
                 followers_count |->
                   IF hasRaw /\ "user" \in DOMAIN raw
                     THEN Get(raw.user, "follower_count", followers)
                     ELSE followers],
       created_at |-> Get(tweet, "created_at", <<>>),
       expanded_url |-> expanded_url]

\* ScoreFiles that stops at the first file it cannot score
RECURSIVE ScoreFiles_StopAtFailure(_, _, _, _)
ScoreFiles_StopAtFailure(files, k, config, catalog) ==
  IF k > Len(files) THEN <<>>
  ELSE LET file == files[k]
           rest == ScoreFiles_StopAtFailure(files, k + 1, config, catalog)
       IN  IF file.state # "ok" THEN <<>>
           ELSE LET score_data ==
                      calculate_relevance_score(_normalize_tweet_structure(file.tweet),
                                                config, catalog)
                IN  IF score_data.raised # "" THEN <<>>
                    ELSE << Put(Put(score_data.ret, "source_file", file.name),
                                "collected_at", file.collected_at) >> \o rest

\* the loop over the raw files, from file k on: the score objects appended
RECURSIVE ScoreFiles(_, _, _, _)
ScoreFiles(files, k, config, catalog) ==
  IF k > Len(files) THEN <<>>
  ELSE LET file == files[k]
           rest == ScoreFiles(files, k + 1, config, catalog)
       IN  IF file.state # "ok" THEN rest
           ELSE LET normalized_tweet == _normalize_tweet_structure(file.tweet)
                    score_data == calculate_relevance_score(normalized_tweet, config, catalog)
                IN  IF ~validate_tweet_object(normalized_tweet) THEN rest
                    ELSE IF score_data.raised # "" THEN rest
                    ELSE << Put(Put(score_data.ret, "source_file", file.name),
                                "collected_at", file.collected_at) >> \o rest

\* where list.sort puts x among the ones sorted so far, with ties reversed
InsertByScore_BeforeTies(sorted, x) ==
  LET p == Cardinality({ i \in 1..Len(sorted) : sorted[i].score > x.score })
  IN  SubSeq(sorted, 1, p) \o <<x>> \o SubSeq(sorted, p + 1, Len(sorted))

\* list.sort(key=score, reverse=True) is stable: x goes after every element
\* sorted so far whose score is at least its own
InsertByScore(sorted, x) ==
  LET p == Cardinality({ i \in 1..Len(sorted) : sorted[i].score >= x.score })
  IN  SubSeq(sorted, 1, p) \o <<x>> \o SubSeq(sorted, p + 1, Len(sorted))

\* the first n elements of seq, sorted
RECURSIVE SortByScore(_, _)
SortByScore(seq, n) ==
  IF n = 0 THEN <<>> ELSE InsertByScore(SortByScore(seq, n - 1), seq[n])

\* [raised, ret]
score_tweets_from_raw_data(dirExists, files, config, catalog) ==
  IF ~dirExists THEN Raise("FileNotFoundError")
  ELSE LET scored_tweets == ScoreFiles(files, 1, config, catalog)
       IN  Return(SortByScore(scored_tweets, Len(scored_tweets)))

(***************************************************************************)
(* demo_run.py: steps 2 to 4 of main                                       *)
(***************************************************************************)
\* the default of get_relevance_threshold, 0.6, in thousandths
RelevanceThreshold == 600

\* step 2, from tweet k on
RECURSIVE ScoreStep(_, _, _, _)
ScoreStep(tweets, k, config, catalog) ==
  IF k > Len(tweets) THEN <<>>
  ELSE LET score_data == calculate_relevance_score(tweets[k], config, catalog)
           rest == ScoreStep(tweets, k + 1, config, catalog)
       IN  IF score_data.raised # "" THEN rest ELSE <<score_data.ret>> \o rest

\* what step 3 appends for a scored tweet whose enrichment ended as enriched
EnrichedIfRelevant(scored_tweet, enriched) ==
  IF scored_tweet.score >= RelevanceThreshold /\ enriched.raised = ""
    THEN <<enriched.ret>>
    ELSE <<>>

\* step 3, from scored tweet k on: enrich_event is handed the score object
RECURSIVE EnrichStep(_, _)
EnrichStep(scored_tweets, k) ==
  IF k > Len(scored_tweets) THEN <<>>
  ELSE EnrichedIfRelevant(scored_tweets[k], enrich_event(scored_tweets[k]))
         \o EnrichStep(scored_tweets, k + 1)

\* step 4, from event k on: [immediate_alerts, digest_queued, out, file]
RECURSIVE AlertStep(_, _, _, _, _)
AlertStep(events, k, file, readOk, saveOutcome) ==
  IF k > Len(events)
    THEN [immediate_alerts |-> 0, digest_queued |-> 0, out |-> <<>>, file |-> file]
  ELSE LET event == events[k]
           alert == send_immediate_alert(event)
           queue == queue_for_digest(event, file, readOk, saveOutcome)
           immediate == check_alert_threshold(Get(event, "roi_score", RatInt(0)))
           rest  == AlertStep(events, k + 1, IF immediate THEN file ELSE queue.file,
                              readOk, saveOutcome)
       IN  IF immediate
             THEN [rest EXCEPT !.immediate_alerts =
                                 @ + (IF alert.raised = "" /\ alert.ret THEN 1 ELSE 0),
                               !.out = alert.out \o @]
             ELSE [rest EXCEPT !.digest_queued =
                                 @ + (IF queue.raised = "" /\ queue.ret THEN 1 ELSE 0)]

\* the run's figures once step 4 is through
\* [scored_tweets, enriched_events, immediate_alerts, digest_queued, out, file]
RunSummary(scored_tweets, enriched_events, alerts) ==
  [scored_tweets |-> scored_tweets, enriched_events |-> enriched_events,
   immediate_alerts |-> alerts.immediate_alerts,
   digest_queued |-> alerts.digest_queued, out |-> alerts.out,
   file |-> alerts.file]

\* step 4 and the summary, given the outcome of steps 2 and 3
AlertAndSummarize(scored_tweets, enriched_events, file, readOk, saveOutcome) ==
  RunSummary(scored_tweets, enriched_events,
             AlertStep(enriched_events, 1, file, readOk, saveOutcome))

\* steps 3 and 4, given the outcome of step 2
EnrichAndAlert(scored_tweets, file, readOk, saveOutcome) ==
  AlertAndSummarize(scored_tweets, EnrichStep(scored_tweets, 1), file, readOk,
                    saveOutcome)

main(tweets, config, catalog, file, readOk, saveOutcome) ==
  EnrichAndAlert(ScoreStep(tweets, 1, config, catalog), file, readOk, saveOutcome)

(***************************************************************************)
(* Inputs of the batch runs                                                *)
(***************************************************************************)
\* "ai hackathon"
AiHackathonText ==
  <<"a", "i", " ", "h", "a", "c", "k", "a", "t", "h", "o", "n">>

\* three AI terms: topic confidence 0.6
RelevantText ==
  <<"a", "i", " ", "m", "l", " ", "n", "e", "u", "r", "a", "l", " ", "h", "a",
    "c", "k", "a", "t", "h", "o", "n">>

RawFile(name, tweet) ==
  [name |-> name, state |-> "ok", tweet |-> tweet, collected_at |-> <<"t", "0">>]

\* the raw files data/raw may hold: two posts with equal scores, a post with
\* the top score, a post whose raw API response overrides its follower count
\* and holds a media link, posts that cannot be scored and files without a post
RawFiles ==
  { RawFile("tweet_a.json", [id |-> <<"1">>, text |-> AiHackathonText,
                             user |-> [screen_name |-> <<"a">>, followers_count |-> 15000]]),
    RawFile("tweet_b.json", [id |-> <<"2">>, text |-> AiHackathonText,
                             user |-> [screen_name |-> <<"b">>, followers_count |-> 15000]]),
    RawFile("tweet_c.json", [id |-> <<"3">>, text |-> RelevantText,
                             user |-> [screen_name |-> <<"c">>, followers_count |-> 15000]]),
    RawFile("tweet_d.json",
            [id |-> <<"4">>, text |-> AiHackathonText,
             user |-> [screen_name |-> <<"d">>, followers_count |-> 15000],
             _raw_api_response |->
               [user |-> [follower_count |-> 100000],
                expanded_url |-> SourceLink \o PhotoPath \o <<"1">>]]),
    RawFile("tweet_e.json", [id |-> <<"5">>, text |-> AiHackathonText,
                             user |-> [screen_name |-> <<"e">>, followers_count |-> -1]]),
    RawFile("tweet_f.json", [id |-> <<"6">>, text |-> NotAString,
                             user |-> [screen_name |-> <<"f">>, followers_count |-> 15000]]),
    [name |-> "tweet_g.json", state |-> "corrupt", tweet |-> EmptyDict,
     collected_at |-> <<>>],
    [name |-> "tweet_h.json", state |-> "no_tweet_data", tweet |-> EmptyDict,
     collected_at |-> <<>>],
    [name |-> "tweet_i.json", state |-> "tweet_not_dict", tweet |-> EmptyDict,
     collected_at |-> <<>>] }

\* the tweets of a demo run: a post below the relevance threshold, a post
\* above it, an irrelevant post and two posts that cannot be scored
DemoTweets ==
  { [id |-> <<"1">>, text |-> AiHackathonText,
     user |-> [screen_name |-> <<"a">>, followers_count |-> 15000]],
    [id |-> <<"2">>, text |-> RelevantText,
     user |-> [screen_name |-> <<"b">>, followers_count |-> 15000]],
    [id |-> <<"3">>, text |-> NoMentionText,
     user |-> [screen_name |-> <<"c">>, followers_count |-> 150000]],
    [id |-> <<"4">>, text |-> AiHackathonText,
     user |-> [screen_name |-> <<"d">>, followers_count |-> -1]],
    [id |-> <<"5">>, text |-> AiHackathonText] }

\* the elements of a sequence
Range(seq) == { seq[i] : i \in 1..Len(seq) }

\* every sequence of at most n different elements of S
RECURSIVE SeqsUpTo(_, _)
SeqsUpTo(S, n) ==
  IF n = 0 THEN { <<>> }
  ELSE LET shorter == SeqsUpTo(S, n - 1)
       IN  shorter \cup { Append(q, x) : q \in shorter, x \in S }

BatchCalls ==
  { [op |-> "score_tweets_from_raw_data", dirExists |-> TRUE, files |-> fs,
     config |-> SampleConfig, catalog |-> SampleCatalog] :
      fs \in { q \in SeqsUpTo(RawFiles, MaxBatch) : Cardinality(Range(q)) = Len(q) } }
    \cup { [op |-> "score_tweets_from_raw_data", dirExists |-> FALSE, files |-> <<>>,
            config |-> SampleConfig, catalog |-> SampleCatalog] }

DemoCalls ==
  { [op |-> "main", tweets |-> ts, config |-> SampleConfig, catalog |-> c] :
      ts \in { q \in SeqsUpTo(DemoTweets, MaxBatch) : Cardinality(Range(q)) = Len(q) },
      c \in {SampleCatalog, RepeatingCatalog} }

(***************************************************************************)
(* The batch runs as a state machine: one run, then its outcome            *)
(***************************************************************************)
InitBatch ==
  /\ call \in BatchCalls \cup DemoCalls
  /\ result = Pending
  /\ queueFile = AbsentFile
  /\ delivered = <<>>
  /\ last = AbsentFile
  /\ history = {}

ScoreTweetsFromRawData ==
  /\ call.op = "score_tweets_from_raw_data"
  /\ result.raised = "pending"
  /\ result' = score_tweets_from_raw_data(call.dirExists, call.files, call.config,
                                          call.catalog)
  /\ UNCHANGED <<call, queueFile, delivered, last, history>>

\* the effects of a run that ended as run
DemoRunEnds(run) ==
  /\ result' = Return([scored_tweets |-> run.scored_tweets,
                       enriched_events |-> run.enriched_events,
                       immediate_alerts |-> run.immediate_alerts,
                       digest_queued |-> run.digest_queued])
  /\ delivered' = run.out
  /\ queueFile' = run.file

DemoRun(readOk, saveOutcome) ==
  /\ call.op = "main"
  /\ result.raised = "pending"
  /\ DemoRunEnds(main(call.tweets, call.config, call.catalog, queueFile, readOk,
                      saveOutcome))
  /\ last' = queueFile
  /\ UNCHANGED <<call, history>>

NextBatch ==
  \/ ScoreTweetsFromRawData
  \/ \E readOk \in BOOLEAN, saveOutcome \in SaveOutcomes : DemoRun(readOk, saveOutcome)

SpecBatch == InitBatch /\ [][NextBatch]_vars

(***************************************************************************)
(* The pipeline's operations interleaved: posts are scored and enriched    *)
(* again and again while events are routed and the digest is flushed.      *)
(* history holds, for every scoring and enrichment call made so far, the   *)
(* post, whether the queue file held events at the time, and the outcome.  *)
(***************************************************************************)
PipelineScoreTweets ==
  { [id |-> <<"2">>, text |-> RelevantText,
     user |-> [screen_name |-> <<"b">>, followers_count |-> 15000]] }

PipelineEnrichTweets ==
  { [tweet_id |-> "high", text |-> HighRoiText],
    [tweet_id |-> "low", text |-> LowRoiText] }

ScorePost(tw) ==
  /\ result' = calculate_relevance_score(tw, SampleConfig, SampleCatalog)
  /\ history' = history \cup
       { [op |-> "calculate_relevance_score", post |-> tw,
          queued |-> queueFile.events # <<>>, result |-> result'] }
  /\ call' = [op |-> "calculate_relevance_score", tweet |-> tw,
              config |-> SampleConfig, catalog |-> SampleCatalog]
  /\ delivered' = <<>>
  /\ last' = queueFile
  /\ UNCHANGED queueFile

EnrichPost(tw) ==
  /\ result' = enrich_event(tw)
  /\ history' = history \cup
       { [op |-> "enrich_event", post |-> tw,
          queued |-> queueFile.events # <<>>, result |-> result'] }
  /\ call' = [op |-> "enrich_event", tweet |-> tw]
  /\ delivered' = <<>>
  /\ last' = queueFile
  /\ UNCHANGED queueFile

NextPipeline ==
  \/ \E tw \in PipelineScoreTweets : ScorePost(tw)
  \/ \E tw \in PipelineEnrichTweets : EnrichPost(tw)
  \/ \E event \in PipelineEvents, readOk \in BOOLEAN, saveOutcome \in SaveOutcomes :
       RouteEvent(event, readOk, saveOutcome)
  \/ \E readOk \in BOOLEAN, saveOutcome \in SaveOutcomes :
       SendDailyDigest(readOk, saveOutcome)

SpecPipeline == Init /\ [][NextPipeline]_vars

(***************************************************************************)
(* The life of the events of one pipeline run: step 4 routes every         *)
(* enriched event once, the digest is flushed at any time.  history holds  *)
(* where each event went and how often a flush dispatched it.              *)
(***************************************************************************)
\* most flushes that dispatch the same event
MaxFlushes == 2

\* the flushes that dispatched the event so far
Dispatches(event) ==
  Cardinality({h \in history : h.op = "flush" /\ h.post = event})

\* the events a flush dispatched: the loop stops at the first one it cannot format
DispatchedEvents(events, digest) == SubSeq(events, 1, Len(digest.out))

\* one pass of the loop of step 4: the event goes out at once or into the queue
RouteOnce(event, readOk, saveOutcome) ==
  /\ \A h \in history : h.op = "route" => h.post # event
  /\ Len(queueFile.events) < MaxQueue
  /\ LET roi_score == Get(event, "roi_score", RatInt(0))
         alert == send_immediate_alert(event)
         queue == queue_for_digest(event, queueFile, readOk, saveOutcome)
     IN  IF check_alert_threshold(roi_score)
           THEN /\ result' = Return([decision |-> "Immediate",
                                     counted |-> alert.raised = "" /\ alert.ret])
                /\ delivered' = alert.out
                /\ queueFile' = queueFile
           ELSE /\ result' = Return([decision |-> "Digest",
                                     counted |-> queue.raised = "" /\ queue.ret])
                /\ delivered' = <<>>
                /\ queueFile' = queue.file
  /\ call' = [op |-> "route", event |-> event, readOk |-> readOk,
               saveOutcome |-> saveOutcome]
  /\ last' = queueFile
  /\ history' = history \cup
       { [op |-> "route", post |-> event, decision |-> result'.ret.decision,
          times |-> 1] }

\* a flush, with the events it dispatched recorded
FlushDigest(readOk, saveOutcome) ==
  /\ \A i \in 1..Len(queueFile.events) : Dispatches(queueFile.events[i]) < MaxFlushes
  /\ LET digest == send_daily_digest(queueFile, readOk, saveOutcome)
     IN  /\ result' = [raised |-> digest.raised, ret |-> digest.ret]
         /\ delivered' = digest.out
         /\ queueFile' = digest.file
  /\ call' = [op |-> "send_daily_digest", event |-> EmptyDict, readOk |-> readOk,
               saveOutcome |-> saveOutcome]
  /\ last' = queueFile
  /\ history' = history \cup
       { [op |-> "flush", post |-> event, decision |-> "Digest",
          times |-> Dispatches(event) + 1] :
           event \in Range(DispatchedEvents(_load_digest_queue(queueFile, readOk),
                                            [out |-> delivered'])) }

NextLifecycle ==
  \/ \E event \in PipelineEvents, readOk \in BOOLEAN, saveOutcome \in SaveOutcomes :
       RouteOnce(event, readOk, saveOutcome)
  \/ \E readOk \in BOOLEAN, saveOutcome \in SaveOutcomes :
       FlushDigest(readOk, saveOutcome)

SpecLifecycle == Init /\ [][NextLifecycle]_vars

(***************************************************************************)
(* alert.py with several callers at once: two pipeline runs that queue     *)
(* events and the scheduled digest work on the same queue file.  Neither   *)
(* function takes a lock, so a step is one access to the file.  call and   *)
(* result hold, per caller, where its call stands and what it returned;    *)
(* every read and write of the file succeeds.                              *)
(***************************************************************************)
QueueCallers == {"run1", "run2"}

DigestCaller == "digest"

Callers == QueueCallers \cup {DigestCaller}

\* the events of the runs that go to the digest
QueueableEvents ==
  { event \in PipelineEvents : ~check_alert_threshold(event.roi_score) }
    \cup {DeadlineEvent}

\* a caller between two calls
Idle == [pc |-> "idle", event |-> EmptyDict, queue |-> <<>>]

InitConcurrent ==
  /\ call = [p \in Callers |-> Idle]
  /\ result = [p \in Callers |-> Pending]
  /\ queueFile = AbsentFile
  /\ delivered = <<>>
  /\ last = AbsentFile
  /\ history = {}

\* queue_for_digest up to line 71: the event is valid, the queue is read and
\* the event appended to the caller's copy; each event is handed in once
QueueLoads(p, event) ==
  /\ call[p].pc = "idle"
  /\ validate_enrichment_data(event)
  /\ \A h \in history : h.post # event
  /\ \A q \in QueueCallers : call[q].event # event
  /\ call' = [call EXCEPT ![p] =
                [pc |-> "loaded", event |-> event,
                 queue |-> Append(_load_digest_queue(queueFile, TRUE), event)]]
  /\ result' = [result EXCEPT ![p] = Pending]
  /\ UNCHANGED <<queueFile, delivered, last, history>>

\* queue_for_digest lines 72-73: the caller's copy is written, True returned
QueueSaves(p) ==
  /\ call[p].pc = "loaded"
  /\ queueFile' = _save_digest_queue(queueFile, call[p].queue, "ok").file
  /\ result' = [result EXCEPT ![p] = Return(TRUE)]
  /\ history' = history \cup { [op |-> "accepted", post |-> call[p].event] }
  /\ call' = [call EXCEPT ![p] = Idle]
  /\ UNCHANGED <<delivered, last>>

\* send_daily_digest lines 113-115: the queue is read; an empty one ends the call
FlushLoads ==
  /\ call[DigestCaller].pc = "idle"
  /\ IF _load_digest_queue(queueFile, TRUE) = <<>>
       THEN /\ result' = [result EXCEPT ![DigestCaller] = Return(TRUE)]
            /\ UNCHANGED call
       ELSE /\ result' = [result EXCEPT ![DigestCaller] = Pending]
            /\ call' = [call EXCEPT ![DigestCaller] =
                          [pc |-> "loaded", event |-> EmptyDict,
                           queue |-> _load_digest_queue(queueFile, TRUE)]]
  /\ last' = queueFile
  /\ delivered' = <<>>
  /\ UNCHANGED <<queueFile, history>>

\* send_daily_digest lines 117-119: the events read are dispatched
FlushSends ==
  /\ call[DigestCaller].pc = "loaded"
  /\ delivered' = DigestLoop(call[DigestCaller].queue, 1).out
  /\ history' = history \cup
       { [op |-> "dispatched", post |-> event] :
           event \in Range(DispatchedEvents(call[DigestCaller].queue,
                                            [out |-> delivered'])) }
  /\ IF Len(delivered') < Len(call[DigestCaller].queue)
       THEN /\ result' = [result EXCEPT ![DigestCaller] = Raise("ValueError")]
            /\ call' = [call EXCEPT ![DigestCaller] = Idle]
       ELSE /\ call' = [call EXCEPT ![DigestCaller].pc = "sent"]
            /\ UNCHANGED result
  /\ UNCHANGED <<queueFile, last>>

\* send_daily_digest lines 121-122: the file is cleared, True returned
FlushClears ==
  /\ call[DigestCaller].pc = "sent"
  /\ queueFile' = _save_digest_queue(queueFile, <<>>, "ok").file
  /\ result' = [result EXCEPT ![DigestCaller] = Return(TRUE)]
  /\ call' = [call EXCEPT ![DigestCaller] = Idle]
  /\ UNCHANGED <<delivered, last, history>>

NextConcurrent ==
  \/ \E p \in QueueCallers, event \in QueueableEvents : QueueLoads(p, event)
  \/ \E p \in QueueCallers : QueueSaves(p)
  \/ FlushLoads
  \/ FlushSends
  \/ FlushClears

SpecConcurrent == InitConcurrent /\ [][NextConcurrent]_vars

(***************************************************************************)
(* ingestion.py: poll_sources and its fetch with retries.  call holds the  *)
(* run's progress: the responses received so far, one per attempt, and the *)
(* waits slept after them.                                                 *)
(***************************************************************************)
\* most fetch attempts a configuration allows
MaxRetries == 3

\* the backoff factor of the configuration
BackoffFactor == 2

\* [raised, ret]: the seconds to wait before the next attempt
handle_rate_limit(retry_count, max_retries) ==
  IF retry_count >= max_retries THEN Raise("MaxRetriesExceededError")
  ELSE Return(Min((BackoffFactor ^ retry_count) * 2, 60))

\* the API's tweets: _transform_tweet_format keeps id, text and a follower
\* count estimated from the bookmarks
_transform_tweet_format(api_tweet) ==
  [id |-> Get(api_tweet, "tweet_id", None),
   text |-> Get(api_tweet, "text", <<>>),
   user |-> [screen_name |-> Get(api_tweet, "screen_name", <<>>),
             followers_count |-> Get(api_tweet, "bookmarks", 0) * 100]]

\* the timeline items of type 'tweet', transformed, from item k on
RECURSIVE TimelineTweets(_, _)
TimelineTweets(timeline, k) ==
  IF k > Len(timeline) THEN <<>>
  ELSE (IF Get(timeline[k], "type", None) = <<"t", "w", "e", "e", "t">>
          THEN <<_transform_tweet_format(timeline[k])>> ELSE <<>>)
       \o TimelineTweets(timeline, k + 1)

\* the first tweet of every id, tweets without an id dropped, from tweet k on
RECURSIVE UniqueTweets(_, _, _)
UniqueTweets(all_tweets, k, seen) ==
  IF k > Len(all_tweets) THEN <<>>
  ELSE LET tweet_id == all_tweets[k].id
       IN  IF tweet_id # <<>> /\ tweet_id \notin seen
             THEN <<all_tweets[k]>> \o UniqueTweets(all_tweets, k + 1, seen \cup {tweet_id})
             ELSE UniqueTweets(all_tweets, k + 1, seen)

ApiTweet(tweet_id, text) ==
  [type |-> <<"t", "w", "e", "e", "t">>, tweet_id |-> tweet_id, text |-> text,
   screen_name |-> <<"a">>, bookmarks |-> 150]

\* what one request can be answered with: a status, or no answer at all
Responses ==
  { [status |-> 429, timeline |-> <<>>],
    [status |-> 500, timeline |-> <<>>],
    [status |-> 0, timeline |-> <<>>],
    [status |-> 200, timeline |-> <<>>],
    [status |-> 200, timeline |-> <<ApiTweet(<<"1">>, AiHackathonText)>>],
    [status |-> 200, timeline |-> <<ApiTweet(<<"1">>, AiHackathonText),
                                    ApiTweet(<<"1">>, AiHackathonText)>>],
    [status |-> 200, timeline |-> <<ApiTweet(<<"1">>, AiHackathonText),
                                    ApiTweet(<<"2">>, RelevantText)>>],
    [status |-> 200, timeline |-> <<[type |-> <<"a", "d">>, tweet_id |-> <<"9">>]>>] }

PollCalls ==
  { [op |-> "poll_sources", max_retries |-> m, api_key |-> key, query_terms |-> q,
     responses |-> <<>>, waits |-> <<>>] :
      m \in 1..MaxRetries, key \in BOOLEAN, q \in BOOLEAN }

InitPoll ==
  /\ call \in PollCalls
  /\ result = Pending
  /\ queueFile = AbsentFile
  /\ delivered = <<>>
  /\ last = AbsentFile
  /\ history = {}

\* poll_sources ends before any request: without an API key the
\* EnvironmentError is caught by its last handler and raised as APIError;
\* without query terms there is nothing to fetch
PollWithoutFetch ==
  /\ call.op = "poll_sources"
  /\ result.raised = "pending"
  /\ ~call.api_key \/ ~call.query_terms
  /\ result' = IF ~call.api_key THEN Raise("APIError") ELSE Return(<<>>)
  /\ UNCHANGED <<call, queueFile, delivered, last, history>>

\* one pass of the retry loop of _fetch_tweets_by_query, and with the pass
\* that ends the loop the rest of poll_sources
FetchAttempt(response) ==
  /\ call.op = "poll_sources"
  /\ result.raised = "pending"
  /\ call.api_key /\ call.query_terms
  /\ Len(call.responses) < call.max_retries
  /\ LET attempt == Len(call.responses)
         wait    == handle_rate_limit(attempt, call.max_retries)
         lastOne == attempt = call.max_retries - 1
     IN  IF response.status = 429
           THEN IF wait.raised # ""
                  THEN /\ result' = Raise("APIError")
                       /\ call' = [call EXCEPT !.responses = Append(@, response.status)]
                ELSE /\ call' = [call EXCEPT !.responses = Append(@, response.status),
                                             !.waits = Append(@, wait.ret)]
                     /\ result' = IF lastOne THEN Return(<<>>) ELSE result
         ELSE IF response.status # 200
           THEN /\ call' = [call EXCEPT !.responses = Append(@, response.status),
                                        !.waits = Append(@, 2)]
                /\ result' = IF lastOne THEN Raise("APIError") ELSE result
         ELSE /\ call' = [call EXCEPT !.responses = Append(@, response.status)]
              /\ result' = Return(UniqueTweets(TimelineTweets(response.timeline, 1),
                                               1, {}))
  /\ UNCHANGED <<queueFile, delivered, last, history>>

NextPoll == PollWithoutFetch \/ \E response \in Responses : FetchAttempt(response)

SpecPoll == InitPoll /\ [][NextPoll]_vars

(***************************************************************************)
(* Properties of the scorer (SpecScore)                                    *)
(***************************************************************************)
\* a call has ended, by returning or by raising
Done == result.raised # "pending"

Returned(op) == call.op = op /\ result.raised = ""

Raised(op, e) == call.op = op /\ result.raised = e

\* C1: every score calculate_relevance_score returns lies in [0.0, 1.0] (0 to
\* 1000 thousandths), whatever the text, the follower count and the catalog
C1_ScoreInUnitInterval ==
  Returned("calculate_relevance_score")
    => result.ret.score >= 0 /\ result.ret.score <= 1000

\* a keyword-stuffed post in the follower band reaches the score 1.0
C1_Witness ==
  /\ Returned("calculate_relevance_score")
  /\ call.tweet.text = StuffedText
  /\ call.catalog = RepeatingCatalog
  /\ Len(result.ret.keyword_matches) > 10
  /\ result.ret.score = 1000

\* C2: for f >= 0 check_follower_fit(f) returns 1 exactly when
\* follower_min <= f <= follower_max and 0 otherwise; for f < 0 it raises
C2_FollowerFitBand ==
  (call.op = "check_follower_fit" /\ Done)
    => IF call.follower_count < 0
         THEN result.raised = "ValueError"
         ELSE /\ result.raised = ""
              /\ result.ret \in {0, 1}
              /\ result.ret = 1 <=> /\ call.config.follower_min <= call.follower_count
                                    /\ call.follower_count <= call.config.follower_max

\* the upper boundary of the band itself gives 1
C2_Witness ==
  /\ Returned("check_follower_fit")
  /\ call.config = SampleConfig
  /\ call.follower_count = FollowerMax
  /\ result.ret = 1

(***************************************************************************)
(* Properties of the router (Spec)                                         *)
(***************************************************************************)
\* the alert send_immediate_alert delivers for an event
ImmediateAlertOf(event) ==
  << [title |-> "High ROI Event", body |-> format_alert_message(event).ret,
      priority |-> "high", channel |-> "console"] >>

QueuedEvents == _load_digest_queue(queueFile, TRUE)

\* the last call dispatched exactly the events the queue held before it
DispatchedAll ==
  /\ Len(delivered) = Len(last.events)
  /\ \A i \in 1..Len(delivered) :
       /\ format_alert_message(last.events[i]).raised = ""
       /\ delivered[i].body = format_alert_message(last.events[i]).ret

\* C4: an event routed to the digest is in the queue once queue_for_digest has
\* returned True, and once the next send_daily_digest has returned the queued
\* events have been dispatched and the queue is empty
C4_QueuedThenFlushed ==
  /\ (Returned("queue_for_digest") /\ result.ret)
       => InSeq(call.event, QueuedEvents)
  /\ (call.op = "route" /\ result.ret.decision = "Digest" /\ result.ret.counted)
       => InSeq(call.event, QueuedEvents)
  /\ Returned("send_daily_digest")
       => DispatchedAll /\ QueuedEvents = <<>>

\* C10: a digest flush is all-or-nothing: when send_daily_digest ends, by
\* returning or by raising, either every queued event was dispatched and the
\* queue is empty, or nothing was dispatched and the queue is unchanged
C10_FlushAllOrNothing ==
  (call.op = "send_daily_digest" /\ Done)
    => \/ DispatchedAll /\ QueuedEvents = <<>>
       \/ delivered = <<>> /\ queueFile = last

(***************************************************************************)
(* Properties of the enricher (SpecEnrich)                                 *)
(***************************************************************************)
\* C5: every event enrich_event returns has roi_score = prize_value /
\* duration_hours, stated as roi_score * duration_hours = prize_value
C5_RoiIsPrizeOverDuration ==
  Returned("enrich_event")
    => RatMul(result.ret.roi_score, result.ret.duration_hours, 1)
         = result.ret.prize_value

\* C6: enrich_event never returns an event whose duration_hours is <= 0
C6_DurationPositive ==
  Returned("enrich_event") => result.ret.duration_hours > 0

\* C7: calculate_roi raises ValueError for every duration <= 0 and returns
\* prize / duration for every duration > 0
C7_CalculateRoi ==
  (call.op = "calculate_roi" /\ Done)
    => IF call.duration_hours <= 0
         THEN result.raised = "ValueError"
         ELSE /\ result.raised = ""
              /\ RatMul(result.ret, call.duration_hours, 1) = call.prize_value

\* spec scenario 3: calculate_roi(10000.0, 0) raised ValueError
C7_Witness ==
  /\ Raised("calculate_roi", "ValueError")
  /\ call.prize_value = RatInt(10000)
  /\ call.duration_hours = 0

\* C8: the "k" shorthand multiplies the prize by 1000: the scenario text with
\* "$10.8k" and "48-hour sprint" yields prize 10800.0, USD, 48 hours and roi
\* 225.0, and a text with "$10k" yields prize 10000.0
C8_KShorthand ==
  /\ (call.op = "enrich_event" /\ Done
        /\ call.tweet = [tweet_id |-> "t1", text |-> Scenario1Text])
       => /\ result.raised = ""
          /\ result.ret.prize_value = RatInt(10800)
          /\ result.ret.currency_detected = "USD"
          /\ result.ret.duration_hours = 48
          /\ result.ret.roi_score = RatInt(225)
  /\ (call.op = "enrich_event" /\ Done
        /\ call.tweet = [tweet_id |-> "t1", text |-> KFormatText])
       => /\ result.raised = ""
          /\ result.ret.prize_value = RatInt(10000)

\* no prize rule, or no duration rule, matches the text
NoRuleMatches(patterns, text) ==
  \A k \in 1..Len(patterns) : ~Search(patterns[k], text).found

\* an enrich_event call on a tweet with an id and a string text has ended
EnrichedText ==
  /\ call.op = "enrich_event"
  /\ Done
  /\ {"tweet_id", "text"} \subseteq DOMAIN call.tweet
  /\ IsStr(call.tweet.text)

C11_EmptyFlushIsNoOp ==
  (call.op = "send_daily_digest" /\ Done /\ last.events = <<>>)
    => /\ result.raised = ""
       /\ result.ret = TRUE
       /\ delivered = <<>>
       /\ queueFile = last

\* a flush of a queue file that holds the empty list, as an earlier flush left it
C11_Witness ==
  /\ Returned("send_daily_digest")
  /\ last = OkFile(<<>>)
  /\ result.ret = TRUE
  /\ delivered = <<>>
  /\ queueFile = OkFile(<<>>)

\* C12: when the write of the queue file fails, queue_for_digest and
\* send_daily_digest do not report success: they return False or raise
C12_SaveFailureSurfaced ==
  /\ (call.op = "queue_for_digest" /\ Done
        /\ validate_enrichment_data(call.event)
        /\ call.saveOutcome # "ok")
       => ~(result.raised = "" /\ result.ret = TRUE)
  /\ (call.op = "send_daily_digest" /\ Done
        /\ _load_digest_queue(last, call.readOk) # <<>>
        /\ delivered # <<>>
        /\ Len(delivered) = Len(last.events)
        /\ call.saveOutcome # "ok")
       => ~(result.raised = "" /\ result.ret = TRUE)

\* the three fields a renderable event must have
RequiredFields == {"prize_value", "duration_hours", "currency_detected"}

\* C13: format_alert_message raises ValueError whenever the event lacks any of
\* prize_value, duration_hours or currency_detected, and returns a message
\* for every event that has all three
C13_FormatRequiresFields ==
  (call.op = "format_alert_message" /\ Done)
    => IF RequiredFields \subseteq DOMAIN call.event
         THEN result.raised = "" /\ Len(result.ret) >= 2
         ELSE result.raised = "ValueError"

\* an event with a prize and a duration and no currency was rejected
C13_Witness ==
  /\ Raised("format_alert_message", "ValueError")
  /\ call.event = NoCurrencyEvent
  /\ {"prize_value", "duration_hours"} \subseteq DOMAIN call.event

\* the event has the field, and it is neither None nor empty
HasField(event, key) == key \in DOMAIN event /\ event[key] # <<>>

\* the message holds a line of the kind
HasLine(message, kind) == \E i \in 1..Len(message) : message[i][1] = kind

\* the message is the one the template gives for the event
MessageFor(event, message) ==
  /\ InSeq(<<"Prize", event.prize_value, event.currency_detected>>, message)
  /\ InSeq(<<"Duration", event.duration_hours>>, message)
  /\ HasLine(message, "Deadline") <=> HasField(event, "registration_deadline")
  /\ HasField(event, "registration_deadline")
       => InSeq(<<"Deadline", event.registration_deadline>>, message)
  /\ HasLine(message, "Link") <=> HasField(event, "expanded_url")
  /\ HasField(event, "expanded_url")
       => InSeq(<<"Link", event.expanded_url>>, message)

\* C14: the message for an event, whether returned by format_alert_message,
\* sent by send_immediate_alert or sent by send_daily_digest, holds the prize
\* with its currency and the duration in hours, the deadline exactly when the
\* event has one and the source link exactly when the event has one
C14_MessageContent ==
  /\ Returned("format_alert_message") => MessageFor(call.event, result.ret)
  /\ (call.op = "send_immediate_alert" /\ Done)
       => \A i \in 1..Len(delivered) : MessageFor(call.event, delivered[i].body)
  /\ (call.op = "send_daily_digest" /\ Done)
       => \A i \in 1..Len(delivered) : MessageFor(last.events[i], delivered[i].body)

\* a digest of an event with a link and an event with a deadline
C14_Witness ==
  /\ Returned("send_daily_digest")
  /\ last.events = <<LinkedEvent, DeadlineEvent>>
  /\ Len(delivered) = 2
  /\ HasLine(delivered[1].body, "Link")
  /\ ~HasLine(delivered[1].body, "Deadline")
  /\ HasLine(delivered[2].body, "Deadline")
  /\ ~HasLine(delivered[2].body, "Link")

(***************************************************************************)
(* Properties of the batch runs (SpecBatch)                                *)
(***************************************************************************)
\* the raw file holds a post, and the post cannot be scored
FileFails(file, config, catalog) ==
  \/ file.state \in {"corrupt", "tweet_not_dict"}
  \/ /\ file.state = "ok"
     /\ calculate_relevance_score(_normalize_tweet_structure(file.tweet), config,
                                  catalog).raised # ""

\* the batch without the posts that cannot be scored
GoodFiles == SelectSeq(call.files, LAMBDA f : ~FileFails(f, call.config, call.catalog))

GoodTweets ==
  SelectSeq(call.tweets,
            LAMBDA tw : calculate_relevance_score(tw, call.config, call.catalog).raised = "")

Processed(name) == CHOOSE i \in 1..Len(call.files) : call.files[i].name = name

\* C16: the bulk scorer returns its results by score in non-increasing order,
\* and results with equal scores in the order their posts were processed
C16_SortedStable ==
  Returned("score_tweets_from_raw_data")
    => \A i, j \in 1..Len(result.ret) :
         i < j => /\ result.ret[i].score >= result.ret[j].score
                  /\ result.ret[i].score = result.ret[j].score
                       => Processed(result.ret[i].source_file)
                            < Processed(result.ret[j].source_file)

\* two posts with equal scores processed before the post with the top score
C16_Witness ==
  /\ Returned("score_tweets_from_raw_data")
  /\ Len(call.files) = 3
  /\ call.files[1].name = "tweet_b.json"
  /\ call.files[2].name = "tweet_a.json"
  /\ call.files[3].name = "tweet_c.json"
  /\ Len(result.ret) = 3
  /\ result.ret[1].source_file = "tweet_c.json"
  /\ result.ret[2].source_file = "tweet_b.json"
  /\ result.ret[3].source_file = "tweet_a.json"
  /\ result.ret[1].score > result.ret[2].score
  /\ result.ret[2].score = result.ret[3].score

\* C19: every post the scorer rates at or above the relevance threshold is
\* enriched and then routed: the demo run ends with an enriched event for it,
\* immediately alerted or queued for the digest
C19_RelevantPostsRouted ==
  (call.op = "main" /\ Done)
    => \A i \in 1..Len(result.ret.scored_tweets) :
         result.ret.scored_tweets[i].score >= RelevanceThreshold
           => /\ \E k \in 1..Len(result.ret.enriched_events) :
                   result.ret.enriched_events[k].tweet_id
                     = result.ret.scored_tweets[i].tweet_id
              /\ result.ret.immediate_alerts + result.ret.digest_queued >= 1

InvalidPost(tw) ==
  \/ ~({"id", "text", "user"} \subseteq DOMAIN tw)
  \/ ~IsStr(tw.text)
  \/ "followers_count" \in DOMAIN tw.user /\ tw.user.followers_count < 0

C20_RateLimitRaised ==
  (call.op = "poll_sources" /\ Done
     /\ Len(call.responses) = call.max_retries
     /\ \A i \in 1..Len(call.responses) : call.responses[i] = 429)
    => result.raised = "RateLimitError"

(***************************************************************************)
(* Properties of the rule lists (SpecEnrich)                               *)
(***************************************************************************)
\* the first rule of the list that matches somewhere in the text; 0 if none
FirstMatchingRule(patterns, text) ==
  LET matching == {k \in 1..Len(patterns) : Search(patterns[k], text).found}
  IN  IF matching = {} THEN 0
      ELSE CHOOSE k \in matching : \A j \in matching : k <= j

\* the hours a duration rule yields for its match in the text
HoursOfRule(rule, text) ==
  LET m == Search(rule, text)
  IN  IF m.groups THEN ParseInt(m.g1) * rule.multiplier ELSE rule.multiplier

\* C21: prize and duration rules are tried in their declared order and the
\* first rule that matches anywhere in the text decides the prize, the currency
\* and the duration, even when a later rule also matches, matches earlier in
\* the text or is more specific
C21_FirstRuleDecides ==
  (EnrichedText /\ result.raised = "")
    => LET text == call.tweet.text
           pk   == FirstMatchingRule(_parse_prize_patterns, text)
           dk   == FirstMatchingRule(_parse_duration_patterns, text)
       IN  /\ pk # 0 =>
                 LET rule == _parse_prize_patterns[pk]
                     won  == PrizeOfMatch(Search(rule, text), rule.currency)
                 IN  /\ result.ret.prize_value = won.prize
                     /\ result.ret.currency_detected = rule.currency
           /\ dk # 0 =>
                 result.ret.duration_hours =
                   HoursOfRule(_parse_duration_patterns[dk], text)

\* the dollar rule and the hour rule decide although the ETH rule and the day
\* rule match earlier in the text
C21_Witness ==
  /\ Returned("enrich_event")
  /\ call.tweet.text = LaterRulesFirstText
  /\ Search(_parse_prize_patterns[5], LaterRulesFirstText).found
  /\ Search(_parse_duration_patterns[2], LaterRulesFirstText).found
  /\ result.ret.prize_value = RatInt(100)
  /\ result.ret.currency_detected = "USD"
  /\ result.ret.duration_hours = 2

(***************************************************************************)
(* Properties of the life of an event (SpecLifecycle)                      *)
(***************************************************************************)
\* C22: an event never moves backwards: one alerted at once is never placed
\* in the digest queue (routing it leaves the queue as it was), and one that a
\* flush dispatched is not in the queue afterwards and is not dispatched again
\* by a later flush
C22_NeverBackwards ==
  /\ \A h \in history :
       (h.op = "route" /\ h.decision = "Immediate") => ~InSeq(h.post, QueuedEvents)
  /\ (call.op = "route" /\ result.ret.decision = "Immediate") => queueFile = last
  /\ \A h \in history :
       h.op = "flush" => h.times = 1 /\ ~InSeq(h.post, QueuedEvents)

(***************************************************************************)
(* Properties of the score and of its keywords (SpecScore)                 *)
(***************************************************************************)
\* C23: the score is min(1.0, 0.3 * follower_fit + min(0.02 * keyword weight
\* sum, 0.2) + 0.5 * topic_confidence) with topic_confidence = min(0.2 * max(AI
\* terms matched, crypto terms matched), 1.0); a post whose follower count is
\* outside the band scores at most 0.7 (in thousandths: 700)
C23_ScoreFormula ==
  Returned("calculate_relevance_score")
    => LET text_lower == Lower(call.tweet.text)
           followers  == call.tweet.user.followers_count
           in_band    == /\ call.config.follower_min <= followers
                         /\ followers <= call.config.follower_max
           follower_fit     == IF in_band THEN 1 ELSE 0
           topic_confidence ==
             Min(200 * Max(CountTerms(AiTerms, text_lower),
                           CountTerms(CryptoTerms, text_lower)), 1000)
           weight_sum ==
             score_keywords_presence(result.ret.keyword_matches, call.catalog)
       IN  /\ result.ret.score =
                 Min(1000, 300 * follower_fit + Min(2 * weight_sum, 200)
                             + topic_confidence \div 2)
           /\ ~in_band => result.ret.score <= 700

\* a keyword-stuffed post of an account above the band scores exactly 0.7
C23_Witness ==
  /\ Returned("calculate_relevance_score")
  /\ call.tweet.text = StuffedText
  /\ call.tweet.user.followers_count = 100000
  /\ result.ret.follower_fit = 0
  /\ result.ret.score = 700

\* C24: extract_keywords returns each matched term exactly once, whatever the
\* text and the catalog's keyword list: no term occurs twice among the
\* keyword matches, in the same or in another letter case
C24_EachTermOnce ==
  Returned("calculate_relevance_score")
    => \A i, j \in 1..Len(result.ret.keyword_matches) :
         i # j => Lower(result.ret.keyword_matches[i])
                    # Lower(result.ret.keyword_matches[j])

\* the lower-cased terms of a catalog list
LowerTerms(terms) == { Lower(terms[i]) : i \in 1..Len(terms) }

\* the tier weight of the catalog hashtag that is the term
TierWeight(term, catalog) ==
  HashtagWeight((CHOOSE h \in Range(catalog.hashtags) :
                   Lower(h.tag) = Lower(term)).relevance)

\* the weight the groups give a term, in tenths: a catalog keyword 1.6, else a
\* catalog hashtag its tier, else a generic indicator its own, else 0.4
GroupWeight(term, catalog) ==
  IF Lower(term) \in LowerTerms(catalog.keywords) THEN 16
  ELSE IF Lower(term) \in { Lower(h.tag) : h \in Range(catalog.hashtags) }
    THEN TierWeight(term, catalog)
  ELSE IF Lower(term) \in DOMAIN IndicatorWeights THEN IndicatorWeights[Lower(term)]
  ELSE 4

RECURSIVE SumGroupWeights(_, _, _)
SumGroupWeights(keywords, catalog, k) ==
  IF k = 0 THEN 0
  ELSE SumGroupWeights(keywords, catalog, k - 1) + GroupWeight(keywords[k], catalog)

\* C25: every matched catalog keyword adds 1.6 to the raw keyword sum, a
\* catalog hashtag its tier weight (2.0, 1.2, 0.8), a generic indicator 0.6 to
\* 1.0 and any other term 0.4, also when a term is in more than one group
C25_GroupWeights ==
  (Returned("score_keywords_presence") /\ call.catalog.status = "ok")
    => result.ret = SumGroupWeights(call.keywords, call.catalog, Len(call.keywords))

(***************************************************************************)
(* Properties of the currency conversion (SpecCurrency)                    *)
(***************************************************************************)
\* the first matching prize rule of the call names a currency without a rate
UnsupportedCurrencyMatched ==
  LET k == FirstMatchingRule(call.patterns, call.tweet.text)
  IN  k # 0 /\ call.patterns[k].currency \notin DOMAIN MockRates

HeldByFlush(event) ==
  /\ call[DigestCaller].pc = "loaded"
  /\ InSeq(event, call[DigestCaller].queue)

\* C27: the flush's read and clear act as one critical section: an event
\* whose queue_for_digest call returned True is in the queue until a flush
\* dispatches it, also when queue_for_digest runs while a flush or another
\* queue_for_digest is under way
C27_FlushIsCriticalSection ==
  \A h \in history :
    h.op = "accepted"
      => \/ InSeq(h.post, QueuedEvents)
         \/ [op |-> "dispatched", post |-> h.post] \in history
         \/ HeldByFlush(h.post)

(***************************************************************************)
(* Properties of the digest queue's contents (Spec)                        *)
(***************************************************************************)
\* the events the call found in the queue are still there, in place and in order
KeepsQueued ==
  /\ Len(last.events) <= Len(QueuedEvents)
  /\ \A i \in 1..Len(last.events) : QueuedEvents[i] = last.events[i]

\* C28: queue_for_digest appends exactly the given event at the tail of the
\* queue and leaves every event queued before in place and in order; no call
\* other than a digest flush removes an event, also when reading the queue
\* file fails
C28_QueueAppendOnly ==
  /\ (call.op \notin {"none", "send_daily_digest"}) => KeepsQueued
  /\ (Returned("queue_for_digest") /\ result.ret /\ call.saveOutcome = "ok")
       => QueuedEvents = Append(last.events, call.event)

\* C29: every event queue_for_digest stored can be rendered by the flush:
\* format_alert_message accepts every queued event, and send_daily_digest
\* never ends with a formatting error
C29_QueuedEventsRender ==
  /\ \A i \in 1..Len(QueuedEvents) : format_alert_message(QueuedEvents[i]).raised = ""
  /\ (call.op = "send_daily_digest" /\ Done) => result.raised = ""

(***************************************************************************)
(* Properties of the source link (SpecEnrich)                              *)
(***************************************************************************)
\* C30: the source link of a post survives enrichment: when the input of
\* enrich_event carries a non-empty expanded_url, the returned event carries
\* that URL and the message formatted for the event has the link line
C30_LinkSurvives ==
  (Returned("enrich_event") /\ Truthy(call.tweet, "expanded_url"))
    => /\ Get(result.ret, "expanded_url", <<>>) = call.tweet.expanded_url
       /\ InSeq(<<"Link", call.tweet.expanded_url>>,
                format_alert_message(result.ret).ret)

====
